---- MODULE Spec2Model ----
(***************************************************************************)
(* Neko Chain: the ledger (src/src/blockchain.js), its blocks and          *)
(* transactions (src/src/block.js), the signature primitives               *)
(* (src/src/wallet.js) and the LevelDB store (src/src/storage.js) of one   *)
(* node that runs with a Store.                                            *)
(*                                                                         *)
(* The node is a single-threaded JavaScript process: a handler runs        *)
(* without interruption up to its next `await`, and other handlers run     *)
(* while it waits.  Every action below is one such uninterrupted run.      *)
(*                                                                         *)
(* SHA-256 is modelled as a collision-free function: a digest is the       *)
(* tuple of the values that were hashed, together with the number of       *)
(* leading '0' characters of the hex string (capped at `difficulty`),      *)
(* which is a fixed function of the hashed values.  An ECDSA signature is  *)
(* the pair (signing key, signed digest); the private key of a wallet is   *)
(* named like its public key.                                              *)
(***************************************************************************)
EXTENDS Integers, Sequences, FiniteSets, TLC

\* ------------------------------------------------------------------ bounds
MaxChain == 3
MaxPending == 2
MaxMining == 1
MaxCrashes == 2
Stretch == 48
MaxDeploys == 2
MaxContracts == 1
MaxBalance == 10
MaxSockets == 3
MaxSent == 4

\* ------------------------------------------------------- program constants
difficulty == 4
miningReward == 50

\* ------------------------------------------------------------ input domains
NULL == "null"
EMPTY == ""
Addr == {"W", "X"}
Times == {1}
Amounts == {0, 50}

\* ------------------------------------------------------------ wallet.js
NoSig == [key |-> NULL, digest |-> <<>>]

signData(privateKey, dataHash) == [key |-> privateKey, digest |-> dataHash]

verifySignature(publicKey, dataHash, signature) ==
    /\ signature.key = publicKey
    /\ signature.digest = dataHash

\* ------------------------------------------------------------ Transaction
Tx(sender, receiver, amount, timestamp, signature) ==
    [senderAddress |-> sender, receiverAddress |-> receiver, amount |-> amount,
     timestamp |-> timestamp, signature |-> signature]

\* Transaction.calculateHash: SHA256(sender + receiver + amount + timestamp)
TxHash(tx) == <<tx.senderAddress, tx.receiverAddress, tx.amount, tx.timestamp>>

signTransaction(tx, privateKey) ==
    [tx EXCEPT !.signature = signData(privateKey, TxHash(tx))]

\* isValid without the signature checks.
isValidUnchecked(tx) ==
    IF tx.senderAddress = NULL THEN TRUE ELSE tx.amount > 0

\* Transaction.isValid.
isValid(tx) ==
    IF tx.senderAddress = NULL THEN TRUE
    ELSE IF tx.signature = NoSig THEN FALSE
    ELSE IF tx.amount <= 0 THEN FALSE
    ELSE verifySignature(tx.senderAddress, TxHash(tx), tx.signature)

\* The identity that addReceivedTransaction and removeMinedTransactions compare.
SameFingerprint(a, b) ==
    /\ a.senderAddress = b.senderAddress
    /\ a.receiverAddress = b.receiverAddress
    /\ a.amount = b.amount
    /\ a.timestamp = b.timestamp

\* ------------------------------------------------------------------ Block
ZeroHash == [lz |-> 1, pre |-> <<>>]

\* Number of leading '0' characters of the digest, capped at `difficulty`.
LeadingZeros(index, timestamp, transactions, nonce) ==
    (index + timestamp + Len(transactions) + nonce) % (difficulty + 1)

calculateHash(b) ==
    [lz  |-> LeadingZeros(b.index, b.timestamp, b.transactions, b.nonce),
     pre |-> <<b.index, b.timestamp, b.transactions, b.previousHash, b.nonce>>]

NewBlock(index, timestamp, transactions, previousHash) ==
    LET b0 == [index |-> index, timestamp |-> timestamp,
               transactions |-> transactions, previousHash |-> previousHash,
               nonce |-> 0, hash |-> ZeroHash]
    IN [b0 EXCEPT !.hash = calculateHash(b0)]

\* hash.substring(0, difficulty) === '0'.repeat(difficulty)
MeetsTarget(hash, d) == hash.lz >= d

RECURSIVE mineBlock(_, _)
mineBlock(b, d) ==
    IF MeetsTarget(b.hash, d) THEN b
    ELSE LET b1 == [b EXCEPT !.nonce = @ + 1]
         IN mineBlock([b1 EXCEPT !.hash = calculateHash(b1)], d)

hasValidTransactions(b) ==
    \A i \in 1..Len(b.transactions) : isValid(b.transactions[i])

\* ------------------------------------------------------------------ vm.js
\* A bytecode is a sequence of bytes; position p of the code is bytecode[p + 1].
OPCODES ==
    [STOP |-> 0, PUSH1 |-> 1, PUSH32 |-> 2, POP |-> 3, DUP |-> 4, SWAP |-> 5,
     ADD |-> 16, SUB |-> 17, MUL |-> 18, DIV |-> 19, MOD |-> 20,
     LT |-> 32, GT |-> 33, EQ |-> 34, ISZERO |-> 35,
     AND |-> 48, OR |-> 49, NOT |-> 50,
     JUMP |-> 64, JUMPI |-> 65, JUMPDEST |-> 66,
     CALLER |-> 80, CALLVALUE |-> 81, CALLDATALOAD |-> 82, CALLDATASIZE |-> 83,
     SLOAD |-> 96, SSTORE |-> 97, MLOAD |-> 112, MSTORE |-> 113,
     RETURN |-> 128, REVERT |-> 129, LOG |-> 144]

GAS_COSTS ==
    (0 :> 0) @@ (1 :> 3) @@ (2 :> 3) @@ (3 :> 2) @@ (4 :> 3) @@ (5 :> 3) @@
    (16 :> 3) @@ (17 :> 3) @@ (18 :> 5) @@ (19 :> 5) @@ (20 :> 5) @@
    (32 :> 3) @@ (33 :> 3) @@ (34 :> 3) @@ (35 :> 3) @@
    (48 :> 3) @@ (49 :> 3) @@ (50 :> 3) @@
    (64 :> 8) @@ (65 :> 10) @@ (66 :> 1) @@
    (80 :> 2) @@ (81 :> 2) @@ (82 :> 3) @@ (83 :> 2) @@
    (96 :> 200) @@ (97 :> 5000) @@ (112 :> 3) @@ (113 :> 3) @@
    (128 :> 0) @@ (129 :> 0) @@ (144 :> 375)

\* `GAS_COSTS[opcode] || 3`: an opcode without an entry, or with the entry 0,
\* is charged 3.
defaultGasLimit == 1000000

\* A gas schedule under which no opcode fits the default limit.
GasCostOverLimit(opcode) == defaultGasLimit + 1

\* A gas schedule under which no opcode costs anything.
GasCostFree(opcode) == 0

GasCost(opcode) ==
    IF opcode \in DOMAIN GAS_COSTS /\ GAS_COSTS[opcode] # 0 THEN GAS_COSTS[opcode] ELSE 3

\* bytecode[p]: undefined (-1) outside the buffer.
ByteAt(bytecode, p) ==
    IF p >= 0 /\ p < Len(bytecode) THEN bytecode[p + 1] ELSE 0 - 1

\* `bytecode[p] || 0`
ByteOrZero(bytecode, p) ==
    IF p >= 0 /\ p < Len(bytecode) THEN bytecode[p + 1] ELSE 0

\* Map.get(k) || dflt, for a map of numbers.
MapGet(m, k) == IF k \in DOMAIN m THEN m[k] ELSE 0

MapSet(m, k, val) == (k :> val) @@ m

\* BigInt arithmetic.  BigInt has no width: no result is reduced.  Division
\* truncates toward zero and the remainder has the sign of the dividend.
BigDiv(a, b) ==
    LET q == (IF a < 0 THEN 0 - a ELSE a) \div (IF b < 0 THEN 0 - b ELSE b)
    IN IF (a < 0) = (b < 0) THEN q ELSE 0 - q

\* a & b and a | b on two's complement integers of any length.
RECURSIVE BigAnd(_, _)
BigAnd(a, b) ==
    IF a = 0 \/ b = 0 THEN 0
    ELSE IF a = 0 - 1 THEN b
    ELSE IF b = 0 - 1 THEN a
    ELSE 2 * BigAnd(a \div 2, b \div 2) + (a % 2) * (b % 2)

RECURSIVE BigOr(_, _)
BigOr(a, b) ==
    IF a = 0 THEN b
    ELSE IF b = 0 THEN a
    ELSE IF a = 0 - 1 \/ b = 0 - 1 THEN 0 - 1
    ELSE 2 * BigOr(a \div 2, b \div 2) + (IF a % 2 = 1 \/ b % 2 = 1 THEN 1 ELSE 0)

NoError == "none"

\* No VM has been created yet.
NoVM == [pc |-> 0 - 1]

\* new VM(context)
NewVM(context) ==
    [stack |-> <<>>, memory |-> <<>>, storage |-> context.storage, pc |-> 0,
     gasUsed |-> 0,
     gasLimit |-> IF context.gasLimit = 0 THEN defaultGasLimit ELSE context.gasLimit,
     caller |-> context.caller, value |-> context.value, callData |-> context.data,
     returnData |-> <<>>, logs |-> <<>>, stopped |-> FALSE, reverted |-> FALSE,
     jumpDests |-> {}, error |-> NoError]

\* The loop of VM.findJumpDests from position i on, as long as the position
\* is below `limit`: the destinations found and the position reached.  In
\* an iteration, after the skip of a PUSH1 immediate (i1) the second test
\* reads the immediate itself (i2).
findJumpDestsUpTo(bytecode, i, limit) ==
    LET loop[p \in Nat, dests \in SUBSET Nat] ==
            IF p >= Len(bytecode) \/ p >= limit THEN [dests |-> dests, i |-> p]
            ELSE LET i1 == IF ByteAt(bytecode, p) = OPCODES.PUSH1 THEN p + 1 ELSE p
                     i2 == IF ByteAt(bytecode, i1) = OPCODES.PUSH32 THEN i1 + 32 ELSE i1
                 IN loop[i2 + 1,
                         IF ByteAt(bytecode, p) = OPCODES.JUMPDEST THEN dests \cup {p}
                         ELSE dests]
    IN loop[i, {}]

findJumpDests(bytecode) == findJumpDestsUpTo(bytecode, 0, Len(bytecode)).dests

\* An exception thrown by executeOpcode: what the opcode did before the throw
\* stays done.
Throw(v, message) == [v EXCEPT !.error = message]

Top(st) == st[Len(st)]

Pop(st) == SubSeq(st, 1, Len(st) - 1)

\* VM.binaryOp: b is popped first, then a.
binaryOp(v, opcode) ==
    IF Len(v.stack) = 0 THEN Throw(v, "Stack underflow")
    ELSE IF Len(v.stack) = 1 THEN Throw([v EXCEPT !.stack = <<>>], "Stack underflow")
    ELSE LET b == Top(v.stack)
             a == Top(Pop(v.stack))
             r == CASE opcode = OPCODES.ADD -> a + b
                    [] opcode = OPCODES.SUB -> a - b
                    [] opcode = OPCODES.MUL -> a * b
                    [] opcode = OPCODES.DIV -> IF b = 0 THEN 0 ELSE BigDiv(a, b)
                    [] opcode = OPCODES.MOD -> IF b = 0 THEN 0 ELSE a - b * BigDiv(a, b)
                    [] opcode = OPCODES.LT -> IF a < b THEN 1 ELSE 0
                    [] opcode = OPCODES.GT -> IF a > b THEN 1 ELSE 0
                    [] opcode = OPCODES.EQ -> IF a = b THEN 1 ELSE 0
                    [] opcode = OPCODES.AND -> BigAnd(a, b)
                    [] opcode = OPCODES.OR -> BigOr(a, b)
         IN [v EXCEPT !.stack = Append(Pop(Pop(@)), r)]

\* The loops of PUSH32 and of CALLDATALOAD: the number that the 32 bytes
\* of the buffer from `offset` on spell, big-endian (`buffer[p] || 0` each).
RECURSIVE dataValue(_, _, _, _)
dataValue(buffer, offset, i, value) ==
    IF i = 32 THEN value
    ELSE dataValue(buffer, offset, i + 1, value * 256 + ByteOrZero(buffer, offset + i))

\* Two values popped one after the other by safePop: the second pop may throw
\* after the first has been done.
PopTwo(v) ==
    IF Len(v.stack) = 0 THEN Throw(v, "Stack underflow")
    ELSE IF Len(v.stack) = 1 THEN Throw([v EXCEPT !.stack = <<>>], "Stack underflow")
    ELSE [v EXCEPT !.stack = Pop(Pop(@))]

\* VM.executeOpcode
executeOpcode(v, opcode, bytecode) ==
    LET O == OPCODES
        st == v.stack
        n == Len(st)
    IN
    CASE opcode = O.STOP -> [v EXCEPT !.stopped = TRUE]
      [] opcode = O.PUSH1 ->
            [v EXCEPT !.pc = @ + 1, !.stack = Append(@, ByteOrZero(bytecode, v.pc + 1))]
      [] opcode = O.PUSH32 ->
            [v EXCEPT !.pc = @ + 32,
                      !.stack = Append(@, dataValue(bytecode, v.pc + 1, 0, 0))]
      [] opcode = O.POP ->
            IF n = 0 THEN Throw(v, "Stack underflow") ELSE [v EXCEPT !.stack = Pop(@)]
      [] opcode = O.DUP ->
            IF n = 0 THEN Throw(v, "Stack underflow") ELSE [v EXCEPT !.stack = Append(@, Top(st))]
      [] opcode = O.SWAP ->
            IF n < 2 THEN Throw(v, "Stack underflow")
            ELSE [v EXCEPT !.stack = Append(Append(Pop(Pop(@)), Top(st)), Top(Pop(st)))]
      [] opcode \in {O.ADD, O.SUB, O.MUL, O.DIV, O.MOD, O.LT, O.GT, O.EQ, O.AND, O.OR} ->
            binaryOp(v, opcode)
      [] opcode = O.ISZERO ->
            IF n = 0 THEN Throw(v, "Stack underflow")
            ELSE [v EXCEPT !.stack = Append(Pop(@), IF Top(st) = 0 THEN 1 ELSE 0)]
      [] opcode = O.NOT ->
            IF n = 0 THEN Throw(v, "Stack underflow")
            ELSE [v EXCEPT !.stack = Append(Pop(@), 0 - Top(st) - 1)]
      [] opcode = O.JUMP ->
            IF n = 0 THEN Throw(v, "Stack underflow")
            ELSE IF Top(st) \notin v.jumpDests
                 THEN Throw([v EXCEPT !.stack = Pop(@)], "Invalid jump destination")
            ELSE [v EXCEPT !.stack = Pop(@), !.pc = Top(st) - 1]
      [] opcode = O.JUMPI ->
            IF n < 2 THEN PopTwo(v)
            ELSE LET dest == Top(st)
                     condition == Top(Pop(st))
                 IN IF condition = 0 THEN PopTwo(v)
                    ELSE IF dest \notin v.jumpDests
                         THEN Throw(PopTwo(v), "Invalid jump destination")
                    ELSE [PopTwo(v) EXCEPT !.pc = dest - 1]
      [] opcode = O.JUMPDEST -> v
      \* BigInt('0x' + caller.slice(0, 16)): the number that the first
      \* sixteen hex digits of the caller's address spell.
      [] opcode = O.CALLER ->
            [v EXCEPT !.stack = Append(@, CASE v.caller = "W" -> 1 [] v.caller = "X" -> 2 [] OTHER -> 3)]
      [] opcode = O.CALLVALUE -> [v EXCEPT !.stack = Append(@, v.value)]
      [] opcode = O.CALLDATALOAD ->
            IF n = 0 THEN Throw(v, "Stack underflow")
            ELSE [v EXCEPT !.stack = Append(Pop(@), dataValue(v.callData, Top(st), 0, 0))]
      [] opcode = O.CALLDATASIZE -> [v EXCEPT !.stack = Append(@, Len(v.callData))]
      \* A value of the storage Map is a BigInt written by SSTORE or the
      \* decimal string that a contract read back from the Store holds:
      \* its type and its number.  SLOAD: BigInt(storage.get(key) || 0n).
      [] opcode = O.SLOAD ->
            IF n = 0 THEN Throw(v, "Stack underflow")
            ELSE [v EXCEPT !.stack = Append(Pop(@), IF Top(st) \in DOMAIN v.storage
                                                    THEN v.storage[Top(st)].n ELSE 0)]
      [] opcode = O.SSTORE ->
            IF n < 2 THEN PopTwo(v)
            ELSE [PopTwo(v) EXCEPT
                     !.storage = MapSet(@, Top(st), [type |-> "bigint", n |-> Top(Pop(st))])]
      [] opcode = O.MLOAD ->
            IF n = 0 THEN Throw(v, "Stack underflow")
            ELSE [v EXCEPT !.stack = Append(Pop(@), MapGet(v.memory, Top(st)))]
      [] opcode = O.MSTORE ->
            IF n < 2 THEN PopTwo(v)
            ELSE [PopTwo(v) EXCEPT !.memory = MapSet(@, Top(st), Top(Pop(st)))]
      [] opcode = O.RETURN ->
            IF n < 2 THEN PopTwo(v)
            ELSE LET retOffset == Top(st)
                     retSize == Top(Pop(st))
                 IN [PopTwo(v) EXCEPT
                        !.returnData = [i \in 1..retSize |->
                                           MapGet(v.memory, retOffset + i - 1) % 256],
                        !.stopped = TRUE]
      [] opcode = O.REVERT -> [v EXCEPT !.reverted = TRUE, !.stopped = TRUE]
      [] opcode = O.LOG ->
            IF n = 0 THEN Throw(v, "Stack underflow")
            ELSE [v EXCEPT !.stack = Pop(@),
                           !.logs = Append(@, [data |-> Top(st), pc |-> v.pc])]
      [] OTHER -> Throw(v, "Unknown opcode")

\* The iteration without its gas test.
executeIterationUnmetered(v, bytecode) ==
    LET done == executeOpcode([v EXCEPT !.gasUsed = @ + 1], ByteAt(bytecode, v.pc), bytecode)
    IN IF done.error # NoError
       THEN [done EXCEPT !.reverted = TRUE, !.stopped = TRUE]
       ELSE [done EXCEPT !.pc = @ + 1]

\* One iteration of the loop of VM.execute: the gas test, the charge, the
\* opcode, the catch, pc++.
executeIteration(v, bytecode) ==
    LET opcode == ByteAt(bytecode, v.pc)
        gasCost == GasCost(opcode)
    IN IF v.gasUsed + gasCost > v.gasLimit
       THEN [v EXCEPT !.reverted = TRUE, !.stopped = TRUE, !.error = "Out of gas"]
       ELSE LET charged == [v EXCEPT !.gasUsed = @ + gasCost]
                done == executeOpcode(charged, opcode, bytecode)
            IN IF done.error # NoError
               THEN [done EXCEPT !.reverted = TRUE, !.stopped = TRUE]
               ELSE [done EXCEPT !.pc = @ + 1]

RECURSIVE executeLoop(_, _)
executeLoop(v, bytecode) ==
    IF v.pc < Len(bytecode) /\ ~v.stopped THEN executeLoop(executeIteration(v, bytecode), bytecode)
    ELSE v

\* VM.execute: the first pass, then the loop.  The VM after it holds the
\* fields of the result.
execute(v, bytecode) ==
    executeLoop([v EXCEPT !.jumpDests = findJumpDests(bytecode)], bytecode)

\* getResult().success
success(v) == ~v.reverted /\ v.error = NoError

\* ------------------------------------------------------------------ state
VARIABLES
    chain,                \* Blockchain.chain: sequence of blocks (1-based: chain[i+1] is block i)
    pendingTransactions,  \* Blockchain.pendingTransactions: the live array
    shared,               \* positions of chain whose `transactions` IS the live pending array
    mining,               \* minePendingTransactions calls suspended at an await
    crashes,              \* how many times the process has stopped and started again
    plain,                \* positions of chain whose transactions are plain objects
                          \* (loaded from the store, not rebuilt as Transaction)
    requested,            \* a GET_CHAIN this node sent to its peer awaits the answer
    db,                   \* the LevelDB store: block:, height:, meta:chainLength, pending:
    last,                 \* what the handler that just ran hands back: operation,
                          \* the transaction it was given (if any), outcome
    vm,                   \* the VM instance of the execution under way, or of the last one
    bytecode,             \* the bytecode that VM executes
    scan,                 \* findJumpDests: the position its loop has reached
    contracts,            \* ContractManager.contracts: address -> Contract
    deployNonce,          \* ContractManager.deployNonce: deployer -> deploy counter
    contractDb,           \* the contract: entries of the LevelDB store
    peers,                \* WebSocketP2P.peers: url -> WebSocket
    knownPeers,           \* WebSocketP2P.knownPeers: set of urls
    sockets,              \* the WebSocket connections of this node: whether each is
                          \* open, and the messages this node sent on it
    sync                  \* P2PNetwork.syncChain: whether a call awaits a peer's
                          \* chain, and its locals maxLength and longestChain

ledgerVars == <<chain, pendingTransactions, shared, mining, crashes, plain, requested, db>>

vmVars == <<vm, bytecode, scan>>

contractVars == <<contracts, deployNonce, contractDb>>

netVars == <<peers, knownPeers, sockets, sync>>

vars == <<ledgerVars, last, vmVars, contractVars, netVars>>

NoTx == Tx(NULL, NULL, 0, 0, NoSig)
NoBlock == [index |-> 0 - 1, timestamp |-> 0, transactions |-> <<>>,
            previousHash |-> ZeroHash, nonce |-> 0, hash |-> ZeroHash]

Outcome(op, tx, result) == [op |-> op, tx |-> tx, result |-> result]

\* No handler is running: the event loop may start the next one.
Idle == Outcome("none", NoTx, "none")

\* ------------------------------------------------------------- storage.js
EmptyDb == [block |-> <<>>, height |-> <<>>, chainLength |-> 0, pending |-> <<>>]

\* Storage.hashTransaction: the key of a pending: or tx: entry
hashTransaction(tx) == TxHash(tx)

\* Storage.saveBlock: one batch with block:, height: and meta:chainLength
saveBlock(d, b) ==
    [d EXCEPT !.block = (b.hash :> b) @@ @,
              !.height = (b.index :> b.hash) @@ @,
              !.chainLength = b.index + 1]

savePendingTransaction(d, tx) ==
    [d EXCEPT !.pending = (hashTransaction(tx) :> tx) @@ @]

\* Storage.clearPendingTransactions deletes the keys its iterator listed
DeletePending(d, keys) ==
    [d EXCEPT !.pending = [k \in (DOMAIN @) \ keys |-> @[k]]]

getBlockByHeight(d, index) ==
    IF index \notin DOMAIN d.height THEN NoBlock
    ELSE IF d.height[index] \notin DOMAIN d.block THEN NoBlock
    ELSE d.block[d.height[index]]

RECURSIVE loadChainFrom(_, _)
loadChainFrom(d, i) ==
    IF i >= d.chainLength THEN <<>>
    ELSE LET b == getBlockByHeight(d, i)
         IN IF b = NoBlock THEN loadChainFrom(d, i + 1)
            ELSE <<b>> \o loadChainFrom(d, i + 1)

loadChain(d) == loadChainFrom(d, 0)

isEmpty(d) == d.chainLength = 0

\* ---------------------------------------------------------- blockchain.js
createGenesisBlock(now) == NewBlock(0, now, <<>>, ZeroHash)

getLatestBlock(c) == c[Len(c)]

\* getBalance that adds what the address received and forgets what it sent.
RECURSIVE TxListCredits(_, _)
TxListCredits(txs, address) ==
    IF txs = <<>> THEN 0
    ELSE (IF Head(txs).receiverAddress = address THEN Head(txs).amount ELSE 0)
         + TxListCredits(Tail(txs), address)

\* Blockchain.getBalance, the transactions of one block.
RECURSIVE TxListBalance(_, _)
TxListBalance(txs, address) ==
    IF txs = <<>> THEN 0
    ELSE LET tx == Head(txs)
         IN (IF tx.receiverAddress = address THEN tx.amount ELSE 0)
            - (IF tx.senderAddress = address THEN tx.amount ELSE 0)
            + TxListBalance(Tail(txs), address)

RECURSIVE getBalanceOf(_, _)
getBalanceOf(c, address) ==
    IF c = <<>> THEN 0
    ELSE TxListBalance(Head(c).transactions, address) + getBalanceOf(Tail(c), address)

getBalance(address) == getBalanceOf(chain, address)

validateChain(c) ==
    /\ Len(c) # 0
    /\ \A i \in 2..Len(c) :
          /\ c[i].hash = calculateHash(c[i])
          /\ c[i].previousHash = c[i - 1].hash
          /\ MeetsTarget(c[i].hash, difficulty)

\* Blockchain.isChainValid, block by block in the order of the code.  A block
\* loaded from the store holds plain objects: hasValidTransactions calls
\* tx.isValid on them, which is not a function, and the call throws.
RECURSIVE isChainValidFrom(_, _, _)
isChainValidFrom(c, pl, i) ==
    IF i > Len(c) THEN "true"
    ELSE IF c[i].hash # calculateHash(c[i]) THEN "false"
    ELSE IF c[i].previousHash # c[i - 1].hash THEN "false"
    ELSE IF i \in pl /\ c[i].transactions # <<>> THEN "TypeError"
    ELSE IF ~hasValidTransactions(c[i]) THEN "false"
    ELSE isChainValidFrom(c, pl, i + 1)

isChainValid == isChainValidFrom(chain, plain, 2)

InList(tx, txs) == \E j \in 1..Len(txs) : SameFingerprint(txs[j], tx)

removeMinedTransactions(pending, minedTransactions) ==
    SelectSeq(pending, LAMBDA p : ~InList(p, minedTransactions))

\* Array.push on the live pending array: every block that holds this very
\* array as its `transactions` sees the new element.
PushShared(c, sh, tx) ==
    [i \in DOMAIN c |->
        IF i \in sh THEN [c[i] EXCEPT !.transactions = Append(@, tx)] ELSE c[i]]

\* ----------------------------------------------------------------- inputs
\* What a client or a peer may submit.  W is the wallet that spends, X the
\* other wallet.  Transfers W -> X of every amount signed by W; the transfer
\* of 50 unsigned and signed with X's key; a transfer without receiver; one
\* with an empty sender; a sender-absent transaction of an amount other
\* than the mining reward.
Transfer(a, t) == Tx("W", "X", a, t, NoSig)

Transfers ==
    { signTransaction(Transfer(a, t), "W") : a \in Amounts, t \in Times }
    \cup { Transfer(miningReward, t) : t \in Times }
    \cup { signTransaction(Transfer(miningReward, t), "X") : t \in Times }

Rewards == { Tx(NULL, "X", 25, t, NoSig) : t \in Times }

Malformed ==
    { signTransaction(Tx("W", NULL, miningReward, t, NoSig), "W") : t \in Times }
    \cup { Tx(EMPTY, "X", miningReward, t, NoSig) : t \in Times }

TxInputs == Transfers \cup Rewards \cup Malformed

\* Blocks a peer may send.  A peer block carries the peer's reward, alone or
\* after a transfer of 50 from W (signed by W, unsigned, or signed by X).
PeerTxLists ==
    { <<Tx(NULL, "X", miningReward, t, NoSig)>> : t \in Times }
    \cup { <<tx, Tx(NULL, "X", miningReward, tx.timestamp, NoSig)>> :
             tx \in { x \in Transfers : x.amount = miningReward } }

\* The peer builds the block on `prev` at `index` and mines it ("mined"), or
\* does not mine it ("unmined"), or mines it and then drops its first
\* transaction, keeping the hash ("tampered").
PeerBlock(index, now, txs, prev, variant) ==
    LET fresh == NewBlock(index, now, txs, prev)
        mined == mineBlock(fresh, difficulty)
    IN CASE variant = "mined"    -> mined
         [] variant = "unmined"  -> fresh
         [] variant = "tampered" -> [mined EXCEPT !.transactions = Tail(@)]

\* Blocks offered to addBlock: the next block on the tip, mined, with each
\* transaction list; with the peer's reward alone, the next block unmined
\* or tampered, a mined block with the tip's own index, and a mined block
\* that links to the block before the tip.
PeerBlocks ==
    LET tip == getLatestBlock(chain)
        rewardOnly == { txs \in PeerTxLists : Len(txs) = 1 }
    IN { PeerBlock(tip.index + 1, now, txs, tip.hash, "mined") :
           now \in Times, txs \in PeerTxLists }
       \cup { PeerBlock(tip.index + 1, now, txs, tip.hash, v) :
                now \in Times, txs \in rewardOnly, v \in {"unmined", "tampered"} }
       \cup { PeerBlock(tip.index, now, txs, tip.hash, "mined") :
                now \in Times, txs \in rewardOnly }
       \cup { PeerBlock(tip.index + 1, now, txs, tip.previousHash, "mined") :
                now \in Times, txs \in rewardOnly }

\* --------------------------------------------------------------- actions
\* Blockchain.initialize on an empty store: genesis created and saved.
Init ==
    \E now \in Times :
        /\ chain = <<createGenesisBlock(now)>>
        /\ pendingTransactions = <<>>
        /\ shared = {}
        /\ mining = {}
        /\ crashes = 0
        /\ plain = {}
        /\ requested = FALSE
        /\ db = saveBlock(EmptyDb, createGenesisBlock(now))
        /\ last = Outcome("initialize", NoTx, "ok")
        /\ vm = NoVM
        /\ bytecode = <<>>
        /\ scan = 0
        /\ contracts = <<>>
        /\ deployNonce = <<>>
        /\ contractDb = <<>>
        /\ peers = <<>>
        /\ knownPeers = {}
        /\ sockets = <<>>
        /\ sync = [pc |-> "none", maxLength |-> 0, longestChain |-> <<>>]

\* addTransaction that rejects a transfer of the whole balance.
addTransactionResultStrict(tx) ==
    IF tx.senderAddress = EMPTY THEN "MissingSender"
    ELSE IF tx.receiverAddress = NULL \/ tx.receiverAddress = EMPTY THEN "MissingReceiver"
    ELSE IF ~isValid(tx) THEN "InvalidTransaction"
    ELSE IF tx.senderAddress # NULL /\ getBalance(tx.senderAddress) <= tx.amount
         THEN "InsufficientBalance"
    ELSE "ok"

\* Blockchain.addTransaction: the checks, in the order of the code.
addTransactionResult(tx) ==
    IF tx.senderAddress = EMPTY THEN "MissingSender"
    ELSE IF tx.receiverAddress = NULL \/ tx.receiverAddress = EMPTY THEN "MissingReceiver"
    ELSE IF ~isValid(tx) THEN "InvalidTransaction"
    ELSE IF tx.senderAddress # NULL /\ getBalance(tx.senderAddress) < tx.amount
         THEN "InsufficientBalance"
    ELSE "ok"

\* Blockchain.addTransaction (POST /transaction).
AddTransaction(tx) ==
    LET r == addTransactionResult(tx) IN
    /\ last = Idle
    /\ last' = Outcome("addTransaction", tx, r)
    /\ IF r = "ok"
       THEN /\ Len(pendingTransactions) < MaxPending
            /\ pendingTransactions' = Append(pendingTransactions, tx)
            /\ chain' = PushShared(chain, shared, tx)
            /\ db' = savePendingTransaction(db, tx)
            /\ UNCHANGED <<shared, mining, crashes, plain, requested>>
       ELSE UNCHANGED <<chain, pendingTransactions, shared, mining, crashes, plain, requested, db>>

\* Blockchain.addReceivedTransaction (NEW_TX, POST /transaction/receive).
addReceivedTransactionResult(tx) ==
    IF InList(tx, pendingTransactions) THEN FALSE
    ELSE isValid(tx)

AddReceivedTransaction(tx) ==
    LET r == addReceivedTransactionResult(tx) IN
    /\ last = Idle
    /\ last' = Outcome("addReceivedTransaction", tx, IF r THEN "true" ELSE "false")
    /\ IF r
       THEN /\ Len(pendingTransactions) < MaxPending
            /\ pendingTransactions' = Append(pendingTransactions, tx)
            /\ chain' = PushShared(chain, shared, tx)
            /\ UNCHANGED <<shared, mining, crashes, plain, requested, db>>
       ELSE UNCHANGED <<chain, pendingTransactions, shared, mining, crashes, plain, requested, db>>

\* Blockchain.minePendingTransactions up to `await storage.saveBlock`: the
\* reward is pushed on the live array, the block is built on that same array,
\* mined and appended, and the saveBlock batch is written.
MineRecord(block) == [pc |-> "saveBlock", block |-> block]

MineStart(miner, now) ==
    LET reward == Tx(NULL, miner, miningReward, now, NoSig)
        txs == Append(pendingTransactions, reward)
        newBlock == mineBlock(NewBlock(Len(chain), now, txs, getLatestBlock(chain).hash),
                              difficulty)
    IN /\ last = Idle
       /\ Len(chain) < MaxChain
       /\ Cardinality(mining) < MaxMining
       /\ pendingTransactions' = txs
       /\ chain' = Append(PushShared(chain, shared, reward), newBlock)
       /\ shared' = shared \cup {Len(chain) + 1}
       /\ mining' = mining \cup {MineRecord(newBlock)}
       /\ db' = saveBlock(db, newBlock)
       /\ UNCHANGED <<crashes, plain, requested>>
       /\ last' = Outcome("mineStart", NoTx, "ok")

\* minePendingTransactions resumes after saveBlock and runs
\* `await storage.clearPendingTransactions()`: the pending: keys are deleted.
MineSaved(m) ==
    /\ last = Idle
    /\ m \in mining
    /\ m.pc = "saveBlock"
    /\ db' = DeletePending(db, DOMAIN db.pending)
    /\ mining' = (mining \ {m}) \cup {[m EXCEPT !.pc = "clearPending"]}
    /\ UNCHANGED <<chain, pendingTransactions, shared, crashes, plain, requested, last>>

\* minePendingTransactions resumes after clearPendingTransactions:
\* this.pendingTransactions = [] and the block is returned.
MineDone(m) ==
    /\ last = Idle
    /\ m \in mining
    /\ m.pc = "clearPending"
    /\ mining' = mining \ {m}
    /\ pendingTransactions' = <<>>
    /\ shared' = {}
    /\ last' = Outcome("minePendingTransactions", NoTx, "ok")
    /\ UNCHANGED <<chain, crashes, plain, requested, db>>

\* addBlock without the index check.
addBlockResultNoIndex(block) ==
    LET latestBlock == getLatestBlock(chain) IN
    IF block.previousHash # latestBlock.hash THEN FALSE
    ELSE IF block.hash # calculateHash(block) THEN FALSE
    ELSE IF ~MeetsTarget(block.hash, difficulty) THEN FALSE
    ELSE TRUE

\* Blockchain.addBlock: the four checks, in the order of the code.
addBlockResult(block) ==
    LET latestBlock == getLatestBlock(chain) IN
    IF block.previousHash # latestBlock.hash THEN FALSE
    ELSE IF block.index # latestBlock.index + 1 THEN FALSE
    ELSE IF block.hash # calculateHash(block) THEN FALSE
    ELSE IF ~MeetsTarget(block.hash, difficulty) THEN FALSE
    ELSE TRUE

\* persist = TRUE: WebSocketP2P.handleNewBlock, which also calls saveBlock;
\* persist = FALSE: POST /block/receive, which does not.
AddBlock(block, persist) ==
    LET r == addBlockResult(block) IN
    /\ last = Idle
    /\ last' = Outcome("addBlock", NoTx, IF r THEN "true" ELSE "false")
    /\ IF r
       THEN /\ Len(chain) < MaxChain
            /\ chain' = Append(chain, block)
            /\ pendingTransactions' =
                  removeMinedTransactions(pendingTransactions, block.transactions)
            /\ shared' = {}
            /\ db' = IF persist THEN saveBlock(db, block) ELSE db
            /\ UNCHANGED <<mining, crashes, plain, requested>>
       ELSE /\ persist = FALSE
            /\ UNCHANGED <<chain, pendingTransactions, shared, mining, crashes, plain, requested, db>>

\* Chains a peer may send in a CHAIN message: the first k blocks of this
\* node's chain (k = 0: a chain of the peer's own, whose first block is not
\* a genesis block), then n blocks of the peer, the last of them possibly
\* defective.
ForeignFirst(now) == NewBlock(1, now, <<Tx(NULL, "X", 25, now, NoSig)>>, ZeroHash)

Defects == {"mined", "unmined", "tampered", "index", "link"}

PeerNext(c, now, txs, defect) ==
    LET tip == getLatestBlock(c) IN
    CASE defect = "index" -> PeerBlock(tip.index + 2, now, txs, tip.hash, "mined")
      [] defect = "link"  -> PeerBlock(tip.index + 1, now, txs, tip.previousHash, "mined")
      [] OTHER            -> PeerBlock(tip.index + 1, now, txs, tip.hash, defect)

RECURSIVE PeerChain(_, _, _, _, _)
PeerChain(c, n, now, txs, defect) ==
    IF n = 0 THEN c
    ELSE PeerChain(Append(c, PeerNext(c, now, txs, IF n = 1 THEN defect ELSE "mined")),
                   n - 1, now, txs, defect)

CandTxLists == { txs \in PeerTxLists : Len(txs) = 1 \/ txs[1].signature = NoSig }

CandidateChains ==
    {<<>>, chain}
    \cup { PeerChain(IF k = 0 THEN <<ForeignFirst(now)>> ELSE SubSeq(chain, 1, k),
                     n, now, txs, defect) :
             k \in {0, Len(chain) - 1, Len(chain)}, n \in 1..(MaxChain - Len(chain)),
             now \in Times, txs \in CandTxLists, defect \in Defects }

\* Blockchain.replaceChain rebuilds every block and every transaction of the
\* candidate from its fields, then restores nonce and hash.
ReconstructTx(txData) ==
    Tx(txData.senderAddress, txData.receiverAddress, txData.amount,
       txData.timestamp, txData.signature)

\* The block rebuilt without its previousHash (the constructor's default '').
ReconstructBlockUnlinked(blockData) ==
    [NewBlock(blockData.index, blockData.timestamp,
              [j \in DOMAIN blockData.transactions |->
                  ReconstructTx(blockData.transactions[j])],
              [lz |-> 0, pre |-> <<>>])
        EXCEPT !.nonce = blockData.nonce, !.hash = blockData.hash]

ReconstructBlock(blockData) ==
    [NewBlock(blockData.index, blockData.timestamp,
              [j \in DOMAIN blockData.transactions |->
                  ReconstructTx(blockData.transactions[j])],
              blockData.previousHash)
        EXCEPT !.nonce = blockData.nonce, !.hash = blockData.hash]

Reconstruct(newChainData) ==
    [i \in DOMAIN newChainData |-> ReconstructBlock(newChainData[i])]

\* Blockchain.replaceChain: the rebuilt candidate is validated by
\* validateChain and installed.  Its length is not compared with the
\* chain's, and the store is not written.
replaceChainResult(newChainData) == validateChain(Reconstruct(newChainData))

ReplaceChain(newChainData) ==
    /\ last = Idle
    /\ IF replaceChainResult(newChainData)
       THEN /\ chain' = Reconstruct(newChainData)
            /\ shared' = {}
            /\ plain' = {}
            /\ last' = Outcome("replaceChain", NoTx, "true")
            /\ UNCHANGED <<pendingTransactions, mining, crashes, requested, db>>
       ELSE /\ last' = Outcome("replaceChain", NoTx, "false")
            /\ UNCHANGED <<chain, pendingTransactions, shared, mining, crashes,
                           plain, requested, db>>

\* Candidates handed to replaceChain by a caller that does not compare
\* lengths: the chain itself, its proper prefixes, and no block at all.
ReplaceInputs ==
    {<<>>} \cup { SubSeq(chain, 1, k) : k \in 1..Len(chain) }

\* WebSocketP2P.handleChain: replaceChain if the received chain is longer.
HandleChain(chainData) ==
    /\ last = Idle
    /\ Len(chainData) <= MaxChain
    /\ IF Len(chainData) > Len(chain)
       THEN IF replaceChainResult(chainData)
            THEN /\ chain' = Reconstruct(chainData)
                 /\ shared' = {}
                 /\ last' = Outcome("handleChain", NoTx, "replaced")
                 /\ plain' = {}
                 /\ UNCHANGED <<pendingTransactions, mining, crashes, db>>
            ELSE /\ last' = Outcome("handleChain", NoTx, "invalid")
                 /\ UNCHANGED <<chain, pendingTransactions, shared, mining, crashes, plain, db>>
       ELSE /\ last' = Outcome("handleChain", NoTx, "ignored")
            /\ UNCHANGED <<chain, pendingTransactions, shared, mining, crashes, plain, db>>

\* The orders in which Storage.loadPendingTransactions may list the
\* pending: entries (the key order of their digests).
Orders(f) ==
    { o \in [1..Cardinality(DOMAIN f) -> DOMAIN f] :
        \A i, j \in DOMAIN o : i # j => o[i] # o[j] }

\* The process stops at any point (suspended handlers are lost) and starts
\* again: Blockchain.initialize on the store as it is.
\* Storage.loadPendingTransactions: the values of the pending: entries, in
\* key order.
loadPendingTransactions(d, order) == [i \in DOMAIN order |-> d.pending[order[i]]]

Restart(now, order) ==
    /\ crashes < MaxCrashes
    /\ crashes' = crashes + 1
    /\ order \in Orders(db.pending)
    /\ IF isEmpty(db) \/ loadChain(db) = <<>>
       THEN /\ chain' = <<createGenesisBlock(now)>>
            /\ db' = saveBlock(db, createGenesisBlock(now))
       ELSE /\ chain' = loadChain(db)
            /\ db' = db
    /\ pendingTransactions' =
          IF isEmpty(db) THEN <<>> ELSE loadPendingTransactions(db, order)
    /\ shared' = {}
    /\ mining' = {}
    /\ plain' = IF isEmpty(db) \/ loadChain(db) = <<>> THEN {} ELSE DOMAIN loadChain(db)
    /\ requested' = FALSE
    /\ last' = Outcome("initialize", NoTx, "ok")

\* The handler that ran has handed back its outcome.
Return ==
    /\ last # Idle
    /\ last.result \notin {"findJumpDests", "loop"}
    /\ last' = Idle
    /\ UNCHANGED <<ledgerVars, vmVars, contractVars, netVars>>

\* One handler at a time: the event loop starts a handler only when the
\* previous one has handed back its outcome.
Submit ==
    /\ last = Idle
    /\ \E tx \in TxInputs : AddTransaction(tx)
    /\ UNCHANGED <<vmVars, contractVars, netVars>>
Gossip ==
    /\ last = Idle
    /\ \E tx \in TxInputs : AddReceivedTransaction(tx)
    /\ UNCHANGED <<vmVars, contractVars, netVars>>
Mine ==
    /\ last = Idle
    /\ \E miner \in Addr, now \in Times : MineStart(miner, now)
    /\ UNCHANGED <<vmVars, contractVars, netVars>>
MineSave ==
    /\ last = Idle
    /\ \E m \in mining : MineSaved(m)
    /\ UNCHANGED <<vmVars, contractVars, netVars>>
MineClear ==
    /\ last = Idle
    /\ \E m \in mining : MineDone(m)
    /\ UNCHANGED <<vmVars, contractVars, netVars>>
Receive ==
    /\ last = Idle
    /\ \E block \in PeerBlocks, persist \in BOOLEAN : AddBlock(block, persist)
    /\ UNCHANGED <<vmVars, contractVars, netVars>>
Sync ==
    /\ last = Idle
    /\ \E chainData \in CandidateChains : HandleChain(chainData)
    /\ UNCHANGED requested
    /\ UNCHANGED <<vmVars, contractVars, netVars>>
\* The owner stops calling replaceChain once the store holds more blocks than
\* a chain may have.
Replace ==
    /\ last = Idle
    /\ Cardinality(DOMAIN db.block) <= MaxChain
    /\ \E newChainData \in ReplaceInputs : ReplaceChain(newChainData)
    /\ UNCHANGED <<vmVars, contractVars, netVars>>
Crash ==
    /\ last = Idle
    /\ \E now \in Times, order \in Orders(db.pending) : Restart(now, order)
    /\ vm' = NoVM
    /\ bytecode' = <<>>
    /\ scan' = 0
    /\ contracts' = <<>>
    /\ deployNonce' = <<>>
    /\ peers' = <<>>
    /\ knownPeers' = {}
    /\ sockets' = <<>>
    /\ sync' = [pc |-> "none", maxLength |-> 0, longestChain |-> <<>>]
    /\ UNCHANGED contractDb

\* The node while its process runs: every handler of the ledger.
Next ==
    \/ Submit
    \/ Gossip
    \/ Mine
    \/ MineSave
    \/ MineClear
    \/ Receive
    \/ Sync
    \/ Return

Spec == Init /\ [][Next]_vars

\* A fresh ledger that is given add_transaction and mine_pending calls only.
\* The wallet W may also sign a second transfer of 50, created later.
LaterTransfer == signTransaction(Tx("W", "X", miningReward, 2, NoSig), "W")

WalletInputs == TxInputs \cup {LaterTransfer}

SubmitWallet ==
    /\ last = Idle
    /\ \E tx \in WalletInputs : AddTransaction(tx)
    /\ UNCHANGED <<vmVars, contractVars, netVars>>

NextWallet ==
    \/ SubmitWallet
    \/ Mine
    \/ MineSave
    \/ MineClear
    \/ Return

SpecWallet == Init /\ [][NextWallet]_vars

\* A ledger whose owner submits transfers, mines, and calls replaceChain
\* itself with its own chain or a part of it.
NextReplace ==
    \/ Submit
    \/ Mine
    \/ MineSave
    \/ MineClear
    \/ Replace
    \/ Return

SpecReplace == Init /\ [][NextReplace]_vars

\* The peer B of the fork scenario: it shares this node's genesis block and
\* has mined two blocks of its own on it.
PeerB ==
    PeerChain(SubSeq(chain, 1, 1), 2, 1, <<Tx(NULL, "X", miningReward, 1, NoSig)>>, "mined")

\* WebSocketP2P.handleHandshake: the peer states its chain length; if it is
\* greater than this node's, the node sends GET_CHAIN.
HandleHandshake(chainLength) ==
    /\ last = Idle
    /\ requested' = (requested \/ chainLength > Len(chain))
    /\ UNCHANGED <<chain, pendingTransactions, shared, mining, crashes, plain, db, last>>

\* B connects (or connects again) and sends its handshake.
Handshake ==
    /\ last = Idle
    /\ HandleHandshake(Len(PeerB))
    /\ UNCHANGED <<vmVars, contractVars, netVars>>

\* B broadcasts one of its blocks: WebSocketP2P.handleNewBlock.
Announce ==
    /\ last = Idle
    /\ \E i \in 2..Len(PeerB), persist \in BOOLEAN : AddBlock(PeerB[i], persist)
    /\ UNCHANGED <<vmVars, contractVars, netVars>>

\* B answers a GET_CHAIN with its chain (sendChain) and the CHAIN message is
\* delivered: WebSocketP2P.handleChain.
Reply ==
    /\ last = Idle
    /\ requested
    /\ requested' = FALSE
    /\ HandleChain(PeerB)
    /\ UNCHANGED <<vmVars, contractVars, netVars>>

\* This node mines while its peer B broadcasts the blocks of its own chain.
NextFork ==
    \/ Mine
    \/ MineSave
    \/ MineClear
    \/ Handshake
    \/ Announce
    \/ Reply
    \/ Return

SpecFork == Init /\ [][NextFork]_vars

\* A node that mines while clients and peers hand it transactions and blocks;
\* no chain is ever replaced.
NextLedger ==
    \/ Submit
    \/ Gossip
    \/ Mine
    \/ MineSave
    \/ MineClear
    \/ Receive
    \/ Return

SpecLedger == Init /\ [][NextLedger]_vars

\* A node whose transactions all arrive by gossip, and that mines them.
NextGossip ==
    \/ Gossip
    \/ Mine
    \/ MineSave
    \/ MineClear
    \/ Return

SpecGossip == Init /\ [][NextGossip]_vars

\* ---------------------------------------------------------- VM execution
\* 2050 times PUSH1 1; ADD.
PushAddProgram == [p \in 1..(3 * 2050) |-> IF p % 3 = 0 THEN 16 ELSE 1]

\* Bytecodes handed to VM.execute.
Programs ==
    { PushAddProgram,
      \* PUSH1 2; POP; PUSH32 0x..4200; PUSH1 34; JUMP: position 34 is the
      \* byte 0x42 of the PUSH32 immediate.
      <<1, 2, 3, 2>> \o [i \in 1..30 |-> 0] \o <<66, 0, 1, 34, 64>>,
      \* PUSH1 4; JUMP; PUSH32 0x42..00: position 4 is the first byte of
      \* the immediate.
      <<1, 4, 64, 2, 66>> \o [i \in 1..31 |-> 0],
      <<1, 2, 1, 5, 64, 66, 0>>,          \* PUSH1 2; PUSH1 5; JUMP; JUMPDEST; STOP
      <<1, 3, 64, 66, 0>>,                \* PUSH1 3; JUMP; JUMPDEST; STOP
      <<1, 2, 64, 66, 0>>,                \* PUSH1 2; JUMP (to itself)
      <<1, 1, 1, 6, 65, 0, 66, 1, 9, 0>>, \* JUMPI taken
      <<1, 0, 1, 6, 65, 0, 66, 1, 9, 0>>, \* JUMPI not taken
      <<1, 1, 1, 7, 65, 0, 66, 0>>,       \* JUMPI taken to a position without JUMPDEST
      <<1, 1, 1, 2, 17, 0>>,              \* 1 - 2
      <<1, 0, 50, 1, 0, 97, 0>>,          \* NOT 0, stored under key 0
      <<1, 0, 50, 1, 0, 113, 1, 0, 112>>, \* NOT 0, written to memory 0 and read back
      <<1, 255, 4, 18, 4, 16, 0>>,        \* 255 * 255, doubled
      <<1, 7, 1, 2, 19, 1, 7, 1, 2, 20, 1, 7, 1, 0, 19>>,   \* DIV, MOD, DIV by 0
      <<1, 6, 1, 3, 48, 1, 6, 1, 3, 49, 32, 1, 1, 33, 35>>, \* AND, OR, LT, GT, ISZERO
      <<1, 1, 1, 2, 5, 34, 3, 3>>,        \* SWAP, EQ, POP, POP on an empty stack
      <<80, 81, 83, 1, 0, 82, 144>>,      \* CALLER, CALLVALUE, CALLDATASIZE, CALLDATALOAD, LOG
      <<1, 7, 1, 1, 97, 1, 1, 96, 0>>,    \* PUSH 7; STORE 1; LOAD 1; STOP
      <<1, 7, 1, 1, 97, 129>>,            \* PUSH 7; STORE 1; REVERT
      <<1, 7, 1, 1, 97, 16>>,             \* PUSH 7; STORE 1; ADD on an empty stack
      <<1, 7, 1, 1, 97, 255>>,            \* PUSH 7; STORE 1; unknown opcode
      <<1, 9, 1, 0, 113, 1, 1, 1, 0, 128>>, \* memory[0] = 9; RETURN offset 0 size 1
      <<1, 5, 97>>,                       \* SSTORE with one value on the stack
      <<1, 7, 1, 1, 97, 66, 0>>,          \* PUSH 7; STORE 1; JUMPDEST; STOP: 5007 gas, then STOP
      <<66, 1, 1, 1, 1, 97, 1, 0, 64>>,   \* a loop: JUMPDEST; PUSH 1; STORE 1; JUMP 0
      <<>> }

\* vm.execute(bytecode) on a new VM, one loop iteration per step.
StartVM(context, code) ==
    /\ last = Idle
    /\ vm' = NewVM(context)
    /\ bytecode' = code
    /\ scan' = 0
    /\ last' = Outcome("execute", NoTx, "findJumpDests")
    /\ UNCHANGED <<ledgerVars, contractVars, netVars>>

\* The loop of findJumpDests advances by a stretch of positions.
FirstPass ==
    /\ last = Outcome("execute", NoTx, "findJumpDests")
    /\ scan < Len(bytecode)
    /\ vm' = [vm EXCEPT !.jumpDests =
                  @ \cup findJumpDestsUpTo(bytecode, scan, scan + Stretch).dests]
    /\ scan' = findJumpDestsUpTo(bytecode, scan, scan + Stretch).i
    /\ UNCHANGED <<ledgerVars, last, bytecode, contractVars, netVars>>

\* findJumpDests returns and the loop of execute is entered.
EnterLoop ==
    /\ last = Outcome("execute", NoTx, "findJumpDests")
    /\ scan >= Len(bytecode)
    /\ last' = Outcome("execute", NoTx, "loop")
    /\ UNCHANGED <<ledgerVars, vmVars, contractVars, netVars>>

Iterate ==
    /\ last = Outcome("execute", NoTx, "loop")
    /\ vm.pc < Len(bytecode) /\ ~vm.stopped
    /\ vm' = executeIteration(vm, bytecode)
    /\ UNCHANGED <<ledgerVars, last, bytecode, scan, contractVars, netVars>>

GetResult ==
    /\ last = Outcome("execute", NoTx, "loop")
    /\ ~(vm.pc < Len(bytecode) /\ ~vm.stopped)
    /\ last' = Outcome("execute", NoTx, IF success(vm) THEN "success" ELSE "failure")
    /\ UNCHANGED <<ledgerVars, vmVars, contractVars, netVars>>

NextVM ==
    \* the gas limit 0 stands for none given
    \/ \E value \in {0, 5}, gasLimit \in {0, 5007}, code \in Programs :
          StartVM([caller |-> "W", value |-> value, data |-> <<>>,
                   gasLimit |-> gasLimit, storage |-> <<>>], code)
    \/ FirstPass
    \/ EnterLoop
    \/ Iterate
    \/ GetResult
    \/ Return

SpecVM == Init /\ [][NextVM]_vars

\* execute is synchronous code: once called it runs to its return.
SpecVMRuns ==
    SpecVM /\ WF_vars(FirstPass) /\ WF_vars(EnterLoop) /\ WF_vars(Iterate)
           /\ WF_vars(GetResult)

\* ------------------------------------------------------------- contracts
\* The contracts of the node (src/unnamed/part_002) and the compiler of
\* their sources (compile of src/src/vm.js).  A source is the sequence of
\* its instruction lines, trimmed, without empty lines and comments, each
\* line the sequence of its words with the instruction in upper case and a
\* numeric argument as parseInt reads it.

\* Buffer.from(array): every element becomes a byte.
BufferFrom(array) == [i \in 1..Len(array) |-> array[i] % 256]

\* compile, one line: the elements pushed to the bytecode array, or an
\* error thrown.  The number is parseInt of the second word; without the
\* word it is NaN, which Buffer.from turns into the byte 0, and for PUSH
\* `NaN < 256` is false and BigInt(NaN) throws.  A value of 256 or more is
\* pushed as 32 bytes, the most significant first (the values of the model
\* have at most four bytes).
compileLine(line) ==
    LET instruction == line[1]
        byte == IF Len(line) > 1 THEN line[2] ELSE 0
        pushed(array) == [thrown |-> FALSE, array |-> array]
    IN CASE instruction = "PUSH" ->
                IF Len(line) = 1 THEN [thrown |-> TRUE, array |-> <<>>]
                ELSE IF line[2] < 256 THEN pushed(<<OPCODES.PUSH1, line[2]>>)
                ELSE pushed(<<OPCODES.PUSH32>>
                            \o [i \in 1..32 |-> IF i <= 28 THEN 0
                                                ELSE (line[2] \div (256 ^ (32 - i))) % 256])
         [] instruction = "STORE" -> pushed(<<OPCODES.PUSH1, byte, OPCODES.SSTORE>>)
         [] instruction = "LOAD" -> pushed(<<OPCODES.PUSH1, byte, OPCODES.SLOAD>>)
         [] instruction = "JUMP" -> pushed(<<OPCODES.PUSH1, byte, OPCODES.JUMP>>)
         [] instruction \in
               {"ADD", "SUB", "MUL", "DIV", "MOD", "LT", "GT", "EQ", "ISZERO", "AND",
                "OR", "NOT", "POP", "DUP", "SWAP", "CALLER", "CALLVALUE",
                "CALLDATASIZE", "JUMPDEST", "STOP", "RETURN", "REVERT", "LOG"} ->
                pushed(<<OPCODES[instruction]>>)
         [] OTHER -> [thrown |-> TRUE, array |-> <<>>]

\* compile: the bytecode array after the lines, as a Buffer; the error of
\* ContractManager.deploy stands for a throw.
RECURSIVE compile(_, _)
compile(lines, array) ==
    IF lines = <<>> THEN [error |-> NoError, bytecode |-> BufferFrom(array)]
    ELSE IF compileLine(Head(lines)).thrown
    THEN [error |-> "Compilation failed", bytecode |-> <<>>]
    ELSE compile(Tail(lines), array \o compileLine(Head(lines)).array)

NoContract == [address |-> NULL]

\* new Contract(options) of ContractManager.deploy: no storage is given.
NewContract(address, code, creator, balance, createdAt) ==
    [address |-> address, bytecode |-> code, creator |-> creator,
     storage |-> <<>>, balance |-> balance, createdAt |-> createdAt]

\* Contract.execute: the result of the VM, and the contract after it.  The
\* VM is given the contract's own storage Map and SSTORE writes into it, so
\* the contract holds the VM's storage whatever the result is;
\* `this.storage = result.storage` assigns the same Map.
ContractExecute(contract, context) ==
    LET result == execute(NewVM([caller |-> context.caller, value |-> context.value,
                                 data |-> context.data, gasLimit |-> context.gasLimit,
                                 storage |-> contract.storage]),
                          contract.bytecode)
    IN [result |-> result,
        contract |-> [contract EXCEPT
                         !.storage = result.storage,
                         !.balance = IF success(result) /\ context.value > 0
                                     THEN @ + context.value ELSE @]]

\* ContractManager.generateAddress: the digest of deployer, nonce and time.
generateAddress(deployer, nonce, now) == <<"contract_", deployer, nonce, now>>

\* ContractManager.saveContract: Contract.toJSON with the BigInts of the
\* storage turned into their decimal strings, put under the address.
saveContract(d, contract) ==
    MapSet(d, contract.address,
           [contract EXCEPT
               !.storage = [k \in DOMAIN @ |-> [type |-> "string", n |-> @[k].n]]])

\* ContractManager.loadContract: the contract read, or null.  In the
\* contract of Contract.fromJSON the values of the storage stay the strings
\* read.
loadContract(d, address) == IF address \in DOMAIN d THEN d[address] ELSE NoContract

\* ContractManager.deploy with a Store.
Deploy(options) ==
    LET deployer == options.deployer
        nonce == MapGet(deployNonce, deployer)
        \* Date.now(): the clock is later after every restart of the process
        now == crashes + 1
        address == generateAddress(deployer, nonce, now)
        compiled ==
            IF options.isSource /\ options.type = "string"
            THEN compile(options.bytecode, <<>>)
            ELSE IF options.type = "buffer"
            THEN [error |-> NoError, bytecode |-> options.bytecode]
            ELSE IF options.type = "array"
            THEN [error |-> NoError, bytecode |-> BufferFrom(options.bytecode)]
            ELSE [error |-> "Invalid bytecode format", bytecode |-> <<>>]
        contract == NewContract(address, compiled.bytecode, deployer, options.value, now)
        run == ContractExecute(contract, [caller |-> deployer, value |-> options.value,
                                          data |-> <<>>, gasLimit |-> options.gasLimit])
    IN /\ last = Idle
       /\ nonce < MaxDeploys
       /\ Cardinality(DOMAIN contractDb) < MaxContracts
       /\ deployNonce' = MapSet(deployNonce, deployer, nonce + 1)
       /\ IF compiled.error # NoError
          THEN /\ last' = Outcome("deploy", NoTx, compiled.error)
               /\ UNCHANGED <<contracts, contractDb, vm, bytecode>>
          ELSE /\ vm' = run.result
               /\ bytecode' = compiled.bytecode
               /\ IF ~success(run.result)
                  THEN /\ last' = Outcome("deploy", NoTx, "Constructor failed")
                       /\ UNCHANGED <<contracts, contractDb>>
                  ELSE /\ contracts' = MapSet(contracts, address, run.contract)
                       /\ contractDb' = saveContract(contractDb, run.contract)
                       /\ last' = Outcome("deploy", NoTx, "success")
       /\ UNCHANGED <<ledgerVars, scan, netVars>>

\* ContractManager.call with a Store.
Call(options) ==
    LET address == options.contractAddress
        loaded == loadContract(contractDb, address)
        contract == IF address \in DOMAIN contracts THEN contracts[address] ELSE loaded
        run == ContractExecute(contract, [caller |-> options.caller,
                                          value |-> options.value, data |-> options.data,
                                          gasLimit |-> options.gasLimit])
    IN /\ last = Idle
       /\ IF contract = NoContract
          THEN /\ last' = Outcome("call", NoTx, "Contract not found")
               /\ UNCHANGED <<contracts, contractDb, vm, bytecode>>
          ELSE /\ contract.balance + options.value <= MaxBalance
               /\ vm' = run.result
               /\ bytecode' = contract.bytecode
               /\ contracts' = MapSet(contracts, address, run.contract)
               /\ contractDb' = IF success(run.result)
                                THEN saveContract(contractDb, run.contract)
                                ELSE contractDb
               /\ last' = Outcome("call", NoTx,
                                  IF success(run.result) THEN "success" ELSE "failure")
       /\ UNCHANGED <<ledgerVars, scan, deployNonce, netVars>>

\* The bytecodes and sources handed to deploy.  Of the buffers, the first
\* writes the value sent to storage[1] and reverts if it is given call
\* data, and stops otherwise:
\*   0 CALLDATASIZE; 1 PUSH1 5; 3 JUMPI; 4 STOP; 5 JUMPDEST; 6 CALLVALUE;
\*   7 PUSH1 1; 9 SSTORE; 10 REVERT
\* and the second has an unknown opcode in the place of REVERT.  Of the
\* arrays, the first adds the value sent to storage[1].
DeployBytecodes ==
    { [isSource |-> TRUE, type |-> "string", bytecode |-> source] :
         source \in { << <<"PUSH", 7>>, <<"STORE", 1>>, <<"LOAD", 1>>, <<"STOP">> >>,
                      << <<"PUSH", 300>>, <<"STORE", 1>>, <<"MINT">> >>,
                      << <<"PUSH", 300>>, <<"PUSH">> >>,
                      << <<"PUSH", 7>>, <<"STORE">>, <<"STOP">> >>,
                      << <<"PUSH", 7>>, <<"STORE", 1>>, <<"REVERT">> >> } }
    \cup { [isSource |-> FALSE, type |-> "string",
            bytecode |-> << <<"PUSH", 7>>, <<"STORE", 1>>, <<"STOP">> >>],
           [isSource |-> TRUE, type |-> "buffer",
            bytecode |-> <<83, 1, 5, 65, 0, 66, 81, 1, 1, 97, 129>>],
           [isSource |-> FALSE, type |-> "buffer",
            bytecode |-> <<83, 1, 5, 65, 0, 66, 81, 1, 1, 97, 255>>],
           [isSource |-> FALSE, type |-> "array",
            bytecode |-> <<1, 1, 96, 81, 16, 1, 1, 97, 0>>],
           [isSource |-> FALSE, type |-> "array", bytecode |-> <<257, 7, 1, 1, 97, 16>>] }

DeployOptions ==
    { [deployer |-> deployer, isSource |-> b.isSource, type |-> b.type,
       bytecode |-> b.bytecode, value |-> value, gasLimit |-> gasLimit] :
          deployer \in {"W"}, b \in DeployBytecodes, value \in {0, 5},
          gasLimit \in {0} }

\* The options of a call.  It names an address that the manager has
\* generated, or one that it has not.
CallOptions ==
    { [contractAddress |-> address, caller |-> caller, data |-> data, value |-> value,
       gasLimit |-> gasLimit] :
          address \in DOMAIN contractDb \cup DOMAIN contracts
                         \cup {generateAddress("X", 0, 0)},
          caller \in {"X"}, data \in {<<>>, <<1>>}, value \in {0, 5},
          gasLimit \in {0, 5020} }

NextContract ==
    \/ \E options \in DeployOptions : Deploy(options)
    \/ \E options \in CallOptions : Call(options)
    \/ Crash
    \/ Return

SpecContract == Init /\ [][NextContract]_vars

\* --------------------------------------------------- WebSocket connections
\* The peer table of the node (src/src/p2p-ws.js).  A WebSocket is named by
\* its position in `sockets`; of each one the model keeps its readyState,
\* the URL it was dialed to (NULL for an incoming connection) and the types
\* of the messages this node has sent on it.  `peers` is the Map of the
\* node, in its insertion order.  A handler runs for a message of a socket
\* that is open.

nodeUrl == "ws://localhost:4000"

\* The URLs of the node itself, of a peer, and of that peer as a seed list
\* that names it by address gives it.
Urls == {nodeUrl, "ws://localhost:4001", "ws://127.0.0.1:4001"}

\* peers.has(url)
PeersHas(table, url) == \E i \in 1..Len(table) : table[i].url = url

\* peers.set(url, ws): a new key is added last, a known key keeps its place.
PeersSet(table, url, ws) ==
    IF PeersHas(table, url)
    THEN [i \in 1..Len(table) |->
             IF table[i].url = url THEN [url |-> url, ws |-> ws] ELSE table[i]]
    ELSE Append(table, [url |-> url, ws |-> ws])

\* sendMessage(ws, message): sent if the socket is open.
sendMessage(socks, ws, type) ==
    IF socks[ws].readyState = "OPEN"
    THEN [socks EXCEPT ![ws].sent = Append(@, type)]
    ELSE socks

\* initConnection(ws): the handlers are registered and the handshake is sent.
initConnection(socks, ws) == sendMessage(socks, ws, "HANDSHAKE")

\* The server's 'connection' event: a peer has connected to this node.
Connection ==
    /\ last = Idle
    /\ Len(sockets) < MaxSockets
    /\ sockets' = initConnection(Append(sockets, [readyState |-> "OPEN", url |-> NULL,
                                                  sent |-> <<>>]),
                                 Len(sockets) + 1)
    /\ UNCHANGED <<ledgerVars, last, vmVars, contractVars, peers, knownPeers, sync>>

\* connectToPeer(url), when it opens a WebSocket.
connectToPeer(url) ==
    /\ last = Idle
    /\ url # nodeUrl
    /\ ~PeersHas(peers, url)
    /\ Len(sockets) < MaxSockets
    /\ sockets' = Append(sockets, [readyState |-> "CONNECTING", url |-> url, sent |-> <<>>])
    /\ UNCHANGED <<ledgerVars, last, vmVars, contractVars, peers, knownPeers, sync>>

\* The 'open' event of a WebSocket that connectToPeer created.
Open(ws) ==
    /\ last = Idle
    /\ sockets[ws].readyState = "CONNECTING"
    /\ sockets' = initConnection([sockets EXCEPT ![ws].readyState = "OPEN"], ws)
    /\ peers' = PeersSet(peers, sockets[ws].url, ws)
    /\ knownPeers' = knownPeers \cup {sockets[ws].url}
    /\ UNCHANGED <<ledgerVars, last, vmVars, contractVars, sync>>

\* The connection attempt fails: the 'error' handler of connectToPeer.
Refused(ws) ==
    /\ last = Idle
    /\ sockets[ws].readyState = "CONNECTING"
    /\ sockets' = [sockets EXCEPT ![ws].readyState = "CLOSED"]
    /\ UNCHANGED <<ledgerVars, last, vmVars, contractVars, peers, knownPeers, sync>>

\* handleHandshake(ws, {nodeUrl: url, chainLength}).
handleHandshake(ws, url, chainLength) ==
    IF url = nodeUrl
    THEN /\ sockets' = [sockets EXCEPT ![ws].readyState = "CLOSING"]
         /\ UNCHANGED <<peers, knownPeers, requested>>
    ELSE /\ IF ~PeersHas(peers, url)
            THEN /\ peers' = PeersSet(peers, url, ws)
                 /\ knownPeers' = knownPeers \cup {url}
            ELSE UNCHANGED <<peers, knownPeers>>
         /\ sockets' = sendMessage(IF chainLength > Len(chain)
                                   THEN sendMessage(sockets, ws, "GET_CHAIN")
                                   ELSE sockets,
                                   ws, "GET_PEERS")
         /\ requested' = (requested \/ chainLength > Len(chain))

\* A HANDSHAKE message arrives on an open socket.
ReceiveHandshake(ws, url, chainLength) ==
    /\ last = Idle
    /\ sockets[ws].readyState = "OPEN"
    /\ Len(sockets[ws].sent) + 2 <= MaxSent
    /\ handleHandshake(ws, url, chainLength)
    /\ UNCHANGED <<chain, pendingTransactions, shared, mining, crashes, plain, db, last,
                   vmVars, contractVars, sync>>

\* The 'close' event of a socket that initConnection has set up: the first
\* entry of the table that holds this socket is removed.
Close(ws) ==
    /\ last = Idle
    /\ sockets[ws].readyState \in {"OPEN", "CLOSING"}
    /\ sockets' = [sockets EXCEPT ![ws].readyState = "CLOSED"]
    /\ peers' = IF \E i \in 1..Len(peers) : peers[i].ws = ws
                THEN LET first == CHOOSE i \in 1..Len(peers) :
                                      /\ peers[i].ws = ws
                                      /\ \A j \in 1..(i - 1) : peers[j].ws # ws
                     IN SubSeq(peers, 1, first - 1) \o SubSeq(peers, first + 1, Len(peers))
                ELSE peers
    /\ UNCHANGED <<ledgerVars, last, vmVars, contractVars, knownPeers, sync>>

\* handlePeers that takes every URL of the list.
handlePeersUnfiltered(known, table, peerUrls) == known \cup peerUrls

\* handlePeers(peerUrls): the known URLs after the loop.
handlePeers(known, table, peerUrls) ==
    known \cup {url \in peerUrls : url # nodeUrl /\ ~PeersHas(table, url)}

\* The URLs that reconnectToPeers hands to connectToPeer and that pass its
\* two tests.
Absent(known, table) == {url \in known : ~PeersHas(table, url) /\ url # nodeUrl}

\* reconnectToPeers(): a WebSocket is created for each absent URL.
RECURSIVE reconnectToPeers(_, _, _)
reconnectToPeers(socks, known, table) ==
    IF Absent(known, table) = {} THEN socks
    ELSE LET url == CHOOSE u \in Absent(known, table) : TRUE
         IN reconnectToPeers(Append(socks, [readyState |-> "CONNECTING", url |-> url,
                                            sent |-> <<>>]),
                             known \ {url}, table)

\* A PEERS message arrives on an open socket: handlePeers, which ends with
\* reconnectToPeers.
ReceivePeers(ws, peerUrls) ==
    /\ last = Idle
    /\ sockets[ws].readyState = "OPEN"
    /\ knownPeers' = handlePeers(knownPeers, peers, peerUrls)
    /\ Len(sockets) + Cardinality(Absent(knownPeers', peers)) <= MaxSockets
    /\ sockets' = reconnectToPeers(sockets, knownPeers', peers)
    /\ UNCHANGED <<ledgerVars, last, vmVars, contractVars, peers, sync>>

\* The interval timer of startServer runs reconnectToPeers.
Reconnect ==
    /\ last = Idle
    /\ Len(sockets) + Cardinality(Absent(knownPeers, peers)) <= MaxSockets
    /\ sockets' = reconnectToPeers(sockets, knownPeers, peers)
    /\ UNCHANGED <<ledgerVars, last, vmVars, contractVars, peers, knownPeers, sync>>

\* The chain lengths that a peer states: shorter than, equal to and longer
\* than the chain of this node.
ChainLengths == {Len(chain) - 1, Len(chain), Len(chain) + 1}

NextNet ==
    \/ Connection
    \/ \E url \in Urls : connectToPeer(url)
    \/ \E ws \in DOMAIN sockets : Open(ws)
    \/ \E ws \in DOMAIN sockets : Refused(ws)
    \/ \E ws \in DOMAIN sockets, url \in Urls, chainLength \in ChainLengths :
          ReceiveHandshake(ws, url, chainLength)
    \/ \E ws \in DOMAIN sockets : Close(ws)
    \/ \E ws \in DOMAIN sockets, peerUrls \in SUBSET Urls : ReceivePeers(ws, peerUrls)
    \/ Reconnect
    \/ Return

SpecNet == Init /\ [][NextNet]_vars

\* A node with connected peers that receives transactions from them.
NextRelay ==
    \/ Connection
    \/ \E ws \in DOMAIN sockets, url \in Urls, chainLength \in ChainLengths :
          ReceiveHandshake(ws, url, chainLength)
    \/ Gossip
    \/ Return

SpecRelay == Init /\ [][NextRelay]_vars

\* Blockchain.getTransactionStatus(txHash): the pending pool is searched
\* first, then the blocks from the tip down.
getTransactionStatus(txHash) ==
    LET holds(i) == \E k \in 1..Len(chain[i].transactions) :
                        TxHash(chain[i].transactions[k]) = txHash
    IN IF \E k \in 1..Len(pendingTransactions) : TxHash(pendingTransactions[k]) = txHash
       THEN [status |-> "pending", confirmations |-> 0, blockIndex |-> NULL]
       ELSE IF \E i \in 1..Len(chain) : holds(i)
       THEN LET i == CHOOSE i \in 1..Len(chain) :
                         holds(i) /\ \A j \in (i + 1)..Len(chain) : ~holds(j)
            IN [status |-> "confirmed", confirmations |-> Len(chain) - chain[i].index,
                blockIndex |-> chain[i].index]
       ELSE [status |-> "unknown", confirmations |-> 0, blockIndex |-> NULL]

\* A persistent node that only mines, and may stop and start again.
NextMiner ==
    \/ Mine
    \/ MineSave
    \/ MineClear
    \/ Crash
    \/ Return

SpecMiner == Init /\ [][NextMiner]_vars

\* P2PNetwork.syncChain up to its first `await axios.get`: the length of the
\* chain is sampled.
SyncStart ==
    /\ last = Idle
    /\ sync.pc = "none"
    /\ sync' = [pc |-> "await", maxLength |-> Len(chain), longestChain |-> <<>>]
    /\ UNCHANGED <<ledgerVars, last, vmVars, contractVars, peers, knownPeers, sockets>>

\* syncChain resumes with the chain of a peer (none, <<>>, if the peer is
\* unreachable).  With `more` peers to ask it awaits again; after the last
\* one it calls replaceChain with the longest chain found, if any.
SyncReply(peerChain, more) ==
    LET longer == Len(peerChain) > sync.maxLength
        longestChain == IF longer THEN peerChain ELSE sync.longestChain
        maxLength == IF longer THEN Len(peerChain) ELSE sync.maxLength
    IN /\ last = Idle
       /\ sync.pc = "await"
       /\ IF more
          THEN /\ sync' = [pc |-> "await", maxLength |-> maxLength,
                           longestChain |-> longestChain]
               /\ UNCHANGED <<ledgerVars, last>>
          ELSE /\ sync' = [pc |-> "none", maxLength |-> 0, longestChain |-> <<>>]
               /\ IF longestChain # <<>>
                  THEN ReplaceChain(longestChain)
                  ELSE /\ last' = Outcome("syncChain", NoTx, "false")
                       /\ UNCHANGED ledgerVars
       /\ UNCHANGED <<vmVars, contractVars, peers, knownPeers, sockets>>

\* A node that mines and receives blocks while it syncs with the peer B over
\* HTTP or is sent chains over a WebSocket.
NextSync ==
    \/ Mine
    \/ MineSave
    \/ MineClear
    \/ Receive
    \/ Sync
    \/ SyncStart
    \/ \E k \in 0..Len(PeerB), more \in BOOLEAN : SyncReply(SubSeq(PeerB, 1, k), more)
    \/ Return

SpecSync == Init /\ [][NextSync]_vars

\* ================================================================ claims
\* Vocabulary of the claims.
IsReward(tx) == tx.senderAddress = NULL

BlockTxs(b) == { b.transactions[j] : j \in 1..Len(b.transactions) }

SignatureVerifies(tx) == tx.signature = signData(tx.senderAddress, TxHash(tx))

RECURSIVE RewardSum(_)
RewardSum(txs) ==
    IF txs = <<>> THEN 0
    ELSE (IF IsReward(Head(txs)) THEN Head(txs).amount ELSE 0) + RewardSum(Tail(txs))

RECURSIVE RewardCount(_)
RewardCount(txs) ==
    IF txs = <<>> THEN 0
    ELSE (IF IsReward(Head(txs)) THEN 1 ELSE 0) + RewardCount(Tail(txs))

RECURSIVE AllTxs(_)
AllTxs(c) == IF c = <<>> THEN <<>> ELSE Head(c).transactions \o AllTxs(Tail(c))

\* C1: for all i >= 1, chain[i].previous_hash = chain[i-1].hash and
\* chain[i].index = i (chain is 1-based here, so block i is chain[i + 1]).
C1_ChainLinkedAndIndexed ==
    \A i \in 2..Len(chain) :
        /\ chain[i].previousHash = chain[i - 1].hash
        /\ chain[i].index = i - 1

\* C2: every block of the chain at index >= 1 has a hash that meets the
\* difficulty target and equals the hash recomputed from its fields.
C2_BlocksHashedAndMined ==
    \A i \in 2..Len(chain) :
        /\ MeetsTarget(chain[i].hash, difficulty)
        /\ chain[i].hash = calculateHash(chain[i])

\* C3: every transaction with a sender, in any block of the chain, carries a
\* signature that verifies under its sender against the transaction hash.
C3_ChainSignaturesVerify ==
    \A i \in 1..Len(chain) :
        \A tx \in BlockTxs(chain[i]) : ~IsReward(tx) => SignatureVerifies(tx)

\* C4: the pending pool holds no two transactions with the same fingerprint.
C4_PendingDistinct ==
    \A i, j \in 1..Len(pendingTransactions) :
        i # j => ~SameFingerprint(pendingTransactions[i], pendingTransactions[j])

\* C5: the total supply (sum of the amounts of the sender-absent transactions
\* of the chain) is mining_reward times the number of such transactions.
C5_SupplyIsRewards ==
    RewardSum(AllTxs(chain)) = miningReward * RewardCount(AllTxs(chain))

\* C6: after add_transaction and mine_pending calls on a fresh ledger, no
\* address has a negative balance.
C6_NoNegativeBalance == \A a \in Addr : getBalance(a) >= 0

\* A non-reward transaction between two wallets that is unsigned or signed
\* with a key other than the sender's.
BadlySigned(tx) ==
    /\ tx.senderAddress \in Addr
    /\ tx.receiverAddress \in Addr
    /\ tx.signature = NoSig \/ tx.signature.key # tx.senderAddress

\* C7: add_transaction of a non-reward transaction that is unsigned or signed
\* with a key that is not the sender's fails with InvalidTransaction and
\* leaves the pending pool, the chain and the persisted pending set unchanged.
C7_BadSignatureRejected ==
    [][\A tx \in TxInputs :
          (BadlySigned(tx) /\ AddTransaction(tx)) =>
              /\ last'.result = "InvalidTransaction"
              /\ pendingTransactions' = pendingTransactions
              /\ chain' = chain
              /\ db'.pending = db.pending]_vars

\* add_transaction has just turned down a wrongly signed transfer while the
\* pool and the persisted pending set were not empty.
C7_Witness ==
    /\ last.op = "addTransaction"
    /\ last.result = "InvalidTransaction"
    /\ BadlySigned(last.tx)
    /\ last.tx.signature # NoSig
    /\ pendingTransactions # <<>>
    /\ DOMAIN db.pending # {}

\* A transfer of a positive amount between two wallets, signed by its sender.
ValidTransfer(tx) ==
    /\ tx.senderAddress \in Addr
    /\ tx.receiverAddress \in Addr
    /\ tx.amount > 0
    /\ SignatureVerifies(tx)

\* C8: add_transaction of a validly signed transfer fails with
\* InsufficientBalance, the pending pool unchanged, exactly when the sender's
\* balance is strictly less than the amount; a transfer of exactly the
\* balance is accepted and appended to the pending pool.
C8_InsufficientBalanceExact ==
    [][\A tx \in TxInputs :
          (ValidTransfer(tx) /\ AddTransaction(tx)) =>
              IF getBalance(tx.senderAddress) < tx.amount
              THEN /\ last'.result = "InsufficientBalance"
                   /\ pendingTransactions' = pendingTransactions
              ELSE /\ last'.result = "ok"
                   /\ pendingTransactions' = Append(pendingTransactions, tx)]_vars

\* add_transaction has just accepted a transfer of the sender's whole balance.
C8_Witness ==
    /\ last.op = "addTransaction"
    /\ last.result = "ok"
    /\ ValidTransfer(last.tx)
    /\ getBalance(last.tx.senderAddress) = last.tx.amount
    /\ pendingTransactions # <<>>
    /\ pendingTransactions[Len(pendingTransactions)] = last.tx

\* The four conditions of add_block, on the tip of the chain.
Acceptable(block) ==
    /\ block.previousHash = chain[Len(chain)].hash
    /\ block.index = chain[Len(chain)].index + 1
    /\ block.hash = calculateHash(block)
    /\ MeetsTarget(block.hash, difficulty)

\* C9: add_block appends the block if and only if it links to the tip, has
\* the tip's index plus one, carries its recomputed hash and meets the
\* difficulty; otherwise it returns false, chain and pending pool unchanged.
C9_AddBlockIff ==
    [][last'.op = "addBlock" =>
       \A block \in PeerBlocks, persist \in BOOLEAN :
          AddBlock(block, persist) =>
              IF Acceptable(block)
              THEN /\ last'.result = "true"
                   /\ chain' = Append(chain, block)
              ELSE /\ last'.result = "false"
                   /\ chain' = chain
                   /\ pendingTransactions' = pendingTransactions]_vars

\* add_block has just appended a peer's block to a chain that already held a
\* block after genesis.
C9_Witness ==
    /\ last.op = "addBlock"
    /\ last.result = "true"
    /\ Len(chain) = 3
    /\ chain[3].previousHash = chain[2].hash

\* C10: mine_pending on a chain of length n with pending pool P appends
\* exactly one block (index n, previous_hash the former tip's hash,
\* transactions P followed by the reward to the miner); when it returns, the
\* chain has length n + 1 and ends with that block, and the pending pool is
\* empty in memory and in the store.  m.block is the block as built from n, P
\* and the former tip when the call started.
C10_MineAppendsAndClears ==
    [][\A m \in mining :
          MineDone(m) =>
              /\ Len(chain') = m.block.index + 1
              /\ chain'[Len(chain')] = m.block
              /\ pendingTransactions' = <<>>
              /\ DOMAIN db'.pending = {}]_vars

\* What the transactions of a list pay to an address, and what they take
\* from it.
RECURSIVE Received(_, _)
Received(txs, a) ==
    IF txs = <<>> THEN 0
    ELSE (IF Head(txs).receiverAddress = a THEN Head(txs).amount ELSE 0)
         + Received(Tail(txs), a)

RECURSIVE Sent(_, _)
Sent(txs, a) ==
    IF txs = <<>> THEN 0
    ELSE (IF Head(txs).senderAddress = a THEN Head(txs).amount ELSE 0)
         + Sent(Tail(txs), a)

\* C11: for every address and every chain the node reaches, balance(a) is the
\* sum of the amounts a received minus the sum of the amounts a sent over all
\* transactions of all blocks; pending transactions do not count.  When
\* mine_pending(miner) appends its block (no other mine_pending call being
\* suspended), every balance changes by what the pending transactions pay to
\* the address, minus what they take from it, plus 50 for the miner.
C11_BalanceIsReceivedMinusSent ==
    [][/\ \A a \in Addr :
            getBalanceOf(chain', a) = Received(AllTxs(chain'), a) - Sent(AllTxs(chain'), a)
       /\ \A miner \in Addr, now \in Times :
            (shared = {} /\ MineStart(miner, now)) =>
                \A a \in Addr :
                    getBalanceOf(chain', a) =
                        getBalance(a)
                        + Received(pendingTransactions, a) - Sent(pendingTransactions, a)
                        + (IF a = miner THEN miningReward ELSE 0)]_vars

\* W mined the first block and holds 50; its transfer of 50 to X was then
\* mined by X: W holds 0 and X holds 100.
C11_Witness ==
    /\ Len(chain) = 3
    /\ mining = {}
    /\ chain[2].transactions = <<Tx(NULL, "W", miningReward, 1, NoSig)>>
    /\ Len(chain[3].transactions) = 2
    /\ ValidTransfer(chain[3].transactions[1])
    /\ chain[3].transactions[2] = Tx(NULL, "X", miningReward, 1, NoSig)
    /\ getBalance("W") = 0
    /\ getBalance("X") = 100

\* C12: replace_chain returns failure and leaves the chain unchanged for
\* every candidate that is not longer than the current chain.
C12_ShorterOrEqualRejected ==
    [][\A newChainData \in ReplaceInputs :
          (Len(newChainData) <= Len(chain) /\ ReplaceChain(newChainData)) =>
              /\ last'.result = "false"
              /\ chain' = chain]_vars

\* C13: replace_chain called with the node's current chain leaves the chain,
\* block for block, and the pending pool as they were.
C13_ReplaceByOwnChainIsIdentity ==
    [][ReplaceChain(chain) =>
          /\ chain' = chain
          /\ pendingTransactions' = pendingTransactions]_vars

\* replaceChain has just installed a candidate on a ledger with a pending
\* transfer; the chain has the greatest length, so the candidate was the
\* chain itself and not a part of it.
C13_Witness ==
    /\ last.op = "replaceChain"
    /\ last.result = "true"
    /\ Len(chain) = MaxChain
    /\ pendingTransactions # <<>>

\* No handler is running and no mine_pending call is suspended: every
\* operation that was started has completed.
Quiescent == last = Idle /\ mining = {}

Fingerprints(txs) == { TxHash(txs[i]) : i \in 1..Len(txs) }

\* C14: after every completed chain-mutating operation (genesis creation,
\* mine_pending, add_block, replace_chain) the chain that load_chain reads
\* from the store equals the chain in memory, block for block.
C14_StoreMirrorsChain == Quiescent => loadChain(db) = chain

\* C15: whenever the node may crash during mine_pending, the store does not
\* hold the new block together with a persisted pending transaction that the
\* block contains.
C15_StoreNeverHalfMined ==
    \A m \in mining :
        ~ /\ m.block.hash \in DOMAIN db.block
          /\ \E j \in 1..Len(m.block.transactions) :
                hashTransaction(m.block.transactions[j]) \in DOMAIN db.pending

\* C16: after completed operations on the pending pool, what a restart loads
\* from the store has exactly the fingerprints of the pool in memory.
C16_RestartKeepsPending ==
    Quiescent =>
        \A order \in Orders(db.pending) :
            Fingerprints(loadPendingTransactions(db, order))
                = Fingerprints(pendingTransactions)

\* C17: after k completed mine_pending calls on a fresh persistent node, a
\* stop and restart yields a chain of length k + 1 equal block for block to
\* the chain before the stop, on which is_chain_valid returns true, and an
\* empty pending pool.
C17_RestartAfterMining ==
    [][(mining = {} /\ Crash) =>
          /\ chain' = chain
          /\ isChainValidFrom(chain', plain', 2) = "true"
          /\ pendingTransactions' = <<>>]_vars

\* C18: when the node has turned down a NEW_BLOCK of its peer B that does
\* not extend its tip while B holds a longer valid chain, it has sent
\* GET_CHAIN to B (and B's CHAIN reply then makes its chain B's chain).
C18_RejectedBlockRequestsChain ==
    ( /\ last.op = "addBlock"
      /\ last.result = "false"
      /\ Len(PeerB) > Len(chain)
      /\ validateChain(PeerB) ) => requested

\* The transaction is in the pending pool or in a block of the chain.  On a
\* node whose transactions all arrive by gossip, it was delivered before.
Delivered(tx) ==
    \/ InList(tx, pendingTransactions)
    \/ \E i \in 1..Len(chain) : InList(tx, chain[i].transactions)

\* C19: delivering a NEW_TX message a second time, whatever happened since
\* the first delivery (mining included), changes neither the chain nor the
\* pending pool.
C19_GossipIdempotent ==
    [][\A tx \in TxInputs :
          (Delivered(tx) /\ AddReceivedTransaction(tx)) =>
              /\ chain' = chain
              /\ pendingTransactions' = pendingTransactions]_vars

\* C20: mine_pending interleaved with add_transaction,
\* add_received_transaction or add_block ends as some sequential execution
\* of the same operations does.  In every sequential execution, when
\* mine_pending returns, the chain holds the block it built, the store holds
\* that same block at its height, every transaction of the pool it clears is
\* in that block, and the store keeps no pending transaction that the pool in
\* memory does not have.
C20_MineLinearized ==
    [][\A m \in mining :
          MineDone(m) =>
              /\ chain'[m.block.index + 1] = m.block
              /\ getBlockByHeight(db', m.block.index) = chain'[m.block.index + 1]
              /\ \A i \in 1..Len(pendingTransactions) :
                    \/ InList(pendingTransactions[i], m.block.transactions)
                    \/ InList(pendingTransactions[i], pendingTransactions')
              /\ \A k \in DOMAIN db'.pending :
                    InList(db'.pending[k], pendingTransactions')]_vars

\* C27: a block of the chain keeps its index, timestamp, transaction list,
\* previous_hash, nonce and hash in every later state, as long as no chain
\* is replaced: no operation, in any interleaving with the one that appended
\* it, changes it.
C27_AppendedBlocksImmutable ==
    [][\A i \in 1..Len(chain) :
          /\ i <= Len(chain')
          /\ chain'[i] = chain[i]]_vars

IsGenesis(b) ==
    /\ b.index = 0
    /\ b.previousHash = ZeroHash
    /\ b.transactions = <<>>

\* C28: in every reachable state the chain is non-empty and its first block
\* is a genesis block (index 0, previous_hash "0", no transaction), also
\* after replace_chain has installed a candidate.
C28_GenesisFirst ==
    /\ Len(chain) > 0
    /\ IsGenesis(chain[1])

\* The heights below meta:chainLength for which the store has no block.
MissingHeights(d) ==
    { i \in 0..(d.chainLength - 1) : getBlockByHeight(d, i) = NoBlock }

\* C29: when the store lacks the entry of some height below
\* meta:chainLength, load_chain returns the blocks below the first missing
\* height at most: nothing from beyond it.
C29_LoadChainStopsAtGap ==
    \A i \in MissingHeights(db) : Len(loadChain(db)) <= i

\* The positions of a bytecode at which an instruction starts: PUSH1 is
\* followed by one immediate byte, PUSH32 by thirty-two.
RECURSIVE InstructionStarts(_, _)
InstructionStarts(code, p) ==
    IF p >= Len(code) THEN {}
    ELSE {p} \cup InstructionStarts(code,
                    p + (CASE ByteAt(code, p) = OPCODES.PUSH1 -> 2
                           [] ByteAt(code, p) = OPCODES.PUSH32 -> 33
                           [] OTHER -> 1))

RealJumpDest(code, p) ==
    /\ ByteAt(code, p) = OPCODES.JUMPDEST
    /\ p \in InstructionStarts(code, 0)

\* The next loop iteration executes a JUMP, or a JUMPI whose condition is
\* not zero.
TakesJump(v, code) ==
    /\ v.gasUsed + GasCost(ByteAt(code, v.pc)) <= v.gasLimit
    /\ \/ ByteAt(code, v.pc) = OPCODES.JUMP /\ Len(v.stack) >= 1
       \/ /\ ByteAt(code, v.pc) = OPCODES.JUMPI
          /\ Len(v.stack) >= 2
          /\ Top(Pop(v.stack)) # 0

\* C22: a taken JUMP or JUMPI halts with InvalidJump exactly when its target
\* is not a JUMPDEST opcode at an instruction boundary; in particular a jump
\* to a byte inside a PUSH immediate halts, and a jump to a real JUMPDEST
\* does not.
C22_JumpSafety ==
    [][(Iterate /\ TakesJump(vm, bytecode)) =>
          ((vm'.error = "Invalid jump destination")
              <=> ~RealJumpDest(bytecode, Top(vm.stack)))]_vars

InWord(x) == x >= 0

\* C23: every value on the VM's stack, in its memory and in its storage is
\* an unsigned 256-bit integer.  (The values of this model stay far below
\* 2^256, so the lower end of the range is the one that can fail here.)
C23_ValuesAreWords ==
    vm # NoVM =>
        /\ \A i \in 1..Len(vm.stack) : InWord(vm.stack[i])
        /\ \A k \in DOMAIN vm.memory : InWord(vm.memory[k])
        /\ \A k \in DOMAIN vm.storage : InWord(vm.storage[k].n)

\* C24: the execution of 2050 repetitions of PUSH1 1; ADD under the default
\* gas limit ends with OutOfGas.
C24_PushAddRunsOutOfGas ==
    ( /\ bytecode = PushAddProgram
      /\ vm.gasLimit = defaultGasLimit
      /\ last.op = "execute"
      /\ last.result \in {"success", "failure"} ) => vm.error = "Out of gas"

PushAddFinished ==
    /\ bytecode = PushAddProgram
    /\ vm # NoVM
    /\ vm.gasLimit = defaultGasLimit
    /\ last.op = "execute"
    /\ last.result \in {"success", "failure"}

\* C24 (amended): the bytecode of 2050 repetitions of `PUSH1 1; ADD`, run
\* under the default gas limit, stops before the program completes with a
\* stack underflow at the first ADD, having been charged for two opcodes; it
\* does not run out of gas.
C24_PushAddUnderflows ==
    PushAddFinished =>
        /\ last.result = "failure"
        /\ vm.error = "Stack underflow"
        /\ vm.pc = 2
        /\ vm.gasUsed = GasCost(OPCODES.PUSH1) + GasCost(OPCODES.ADD)

C24_Witness ==
    /\ PushAddFinished
    /\ vm.error = "Stack underflow"
    /\ vm.stack = <<>>

\* The contract that a call to `address` runs: the one of the table, or the
\* one read from the Store.
ContractAt(address) ==
    IF address \in DOMAIN contracts THEN contracts[address]
    ELSE loadContract(contractDb, address)

\* C21: a call whose execution ends with REVERT or with a trap leaves the
\* storage of the contract, in memory and in the Store, as it was.
C21_FailedCallKeepsStorage ==
    [][\A o \in CallOptions :
          (Call(o) /\ last'.result = "failure") =>
              /\ contracts'[o.contractAddress].storage
                    = ContractAt(o.contractAddress).storage
              /\ contractDb' = contractDb]_vars

\* C25: the balance of a contract is the value of its deploy, and every
\* call adds its value to it if it succeeds and nothing if it fails.
C25_BalanceIsSumOfValues ==
    [][/\ \A o \in DeployOptions :
             (Deploy(o) /\ last'.result = "success") =>
                 \A address \in DOMAIN contracts' \ DOMAIN contracts :
                     contracts'[address].balance = o.value
       /\ \A o \in CallOptions :
             (Call(o) /\ last'.result \in {"success", "failure"}) =>
                 contracts'[o.contractAddress].balance
                    = ContractAt(o.contractAddress).balance
                        + (IF last'.result = "success" THEN o.value ELSE 0)]_vars

\* C26: a deploy that fails leaves the contract table, the Store and the
\* deploy counters as they were.
C26_FailedDeployMutatesNothing ==
    [][\A o \in DeployOptions :
          (Deploy(o) /\ last'.result # "success") =>
              /\ contracts' = contracts
              /\ contractDb' = contractDb
              /\ deployNonce' = deployNonce]_vars

\* The types of the messages that the step has sent on the socket.
NewlySent(ws) ==
    { sockets'[ws].sent[i] : i \in (Len(sockets[ws].sent) + 1)..Len(sockets'[ws].sent) }

\* C30: on a peer's HANDSHAKE the node closes the connection and records
\* nothing if the URL is its own; otherwise the peer table holds the
\* connection under the peer's URL, GET_CHAIN is sent exactly if the peer's
\* chain is longer, and GET_PEERS is sent.
C30_Handshake ==
    [][\A ws \in DOMAIN sockets, url \in Urls, chainLength \in ChainLengths :
          ReceiveHandshake(ws, url, chainLength) =>
              IF url = nodeUrl
              THEN /\ sockets'[ws].readyState \in {"CLOSING", "CLOSED"}
                   /\ peers' = peers
                   /\ knownPeers' = knownPeers
              ELSE /\ \E i \in 1..Len(peers') : peers'[i] = [url |-> url, ws |-> ws]
                   /\ ("GET_CHAIN" \in NewlySent(ws)) <=> (chainLength > Len(chain))
                   /\ "GET_PEERS" \in NewlySent(ws)]_vars

\* The iteration that the loop of execute is about to run is refused for gas.
OutOfGasNext ==
    /\ last = Outcome("execute", NoTx, "loop")
    /\ vm.pc < Len(bytecode) /\ ~vm.stopped
    /\ vm.gasUsed + GasCost(ByteAt(bytecode, vm.pc)) > vm.gasLimit

\* C33: the gas used never exceeds the gas limit; an opcode whose cost does
\* not fit is not executed: stack, memory, storage and the gas used stay as
\* they are and the execution halts with the error `Out of gas`, a failure.
C33_GasNeverExceedsLimit ==
    /\ [](vm # NoVM => vm.gasUsed <= vm.gasLimit)
    /\ [][(Iterate /\ OutOfGasNext) =>
             /\ vm'.stack = vm.stack
             /\ vm'.memory = vm.memory
             /\ vm'.storage = vm.storage
             /\ vm'.gasUsed = vm.gasUsed
             /\ vm'.stopped
             /\ vm'.error = "Out of gas"
             /\ ~success(vm')]_vars

C33_Witness ==
    /\ last = Outcome("execute", NoTx, "failure")
    /\ vm.error = "Out of gas"
    /\ vm.storage # <<>>
    /\ vm.gasUsed > 0

\* C34: every opcode executed adds its cost of the table to the gas used,
\* which is 0 for STOP, RETURN and REVERT, and an opcode is refused for gas
\* only if that cost does not fit.
C34_GasIsSumOfTableCosts ==
    [][(Iterate /\ ByteAt(bytecode, vm.pc) \in DOMAIN GAS_COSTS) =>
          IF vm.gasUsed + GAS_COSTS[ByteAt(bytecode, vm.pc)] > vm.gasLimit
          THEN vm'.error = "Out of gas"
          ELSE /\ vm'.error # "Out of gas"
               /\ vm'.gasUsed = vm.gasUsed + GAS_COSTS[ByteAt(bytecode, vm.pc)]]_vars

\* C35: an execution that has been started returns a result.
C35_ExecuteTerminates ==
    (last.op = "execute" /\ last.result \in {"findJumpDests", "loop"})
        ~> (last.op = "execute" /\ last.result \in {"success", "failure"})

\* The loop has run more than once round and the execution has returned.
C35_Witness ==
    /\ last = Outcome("execute", NoTx, "failure")
    /\ bytecode = <<66, 1, 1, 1, 1, 97, 1, 0, 64>>
    /\ vm.error = "Out of gas"
    /\ vm.gasUsed > 2 * GasCost(OPCODES.SSTORE)

\* C39: every URL that keys an entry of the peer table is in knownPeers, and
\* the URL of the node itself is neither a key of the table nor in
\* knownPeers.
C39_PeersAreKnown ==
    /\ \A i \in 1..Len(peers) : peers[i].url \in knownPeers /\ peers[i].url # nodeUrl
    /\ nodeUrl \notin knownPeers

\* A peer is in the table, another known URL is not, a connection has closed
\* and a connection attempt is under way.
C39_Witness ==
    /\ peers # <<>>
    /\ \E url \in knownPeers : ~PeersHas(peers, url)
    /\ \E ws \in DOMAIN sockets : sockets[ws].readyState = "CLOSED"
    /\ \E ws \in DOMAIN sockets : sockets[ws].readyState = "CONNECTING"

\* C32: when a connection closes, no entry of the peer table holds it any
\* more and the known URLs stay as they are; a run of the reconnection timer
\* starts a connection to every known URL that is not in the table.
C32_ClosedPeerIsDroppedAndRetried ==
    [][/\ \A ws \in DOMAIN sockets :
             Close(ws) => /\ \A i \in 1..Len(peers') : peers'[i].ws # ws
                          /\ knownPeers' = knownPeers
       /\ Reconnect =>
             \A url \in Absent(knownPeers, peers) :
                 \E ws \in (Len(sockets) + 1)..Len(sockets') :
                     /\ sockets'[ws].url = url
                     /\ sockets'[ws].readyState = "CONNECTING"]_vars

\* The open sockets of the peer table on which the step sends no message
\* of the type.
NotSentTo(type) ==
    { ws \in DOMAIN sockets : /\ \E i \in 1..Len(peers) : peers[i].ws = ws
                              /\ sockets[ws].readyState = "OPEN"
                              /\ type \notin NewlySent(ws) }

\* C31: the node that accepts a transaction from a peer sends it on to its
\* own peers: to every open socket of the peer table, but for the one it came
\* from.
C31_AcceptedGossipIsRelayed ==
    [][(Gossip /\ last'.result = "true" /\ NULL \notin {last'.tx.senderAddress, last'.tx.receiverAddress})
          => Cardinality(NotSentTo("NEW_TX")) <= 1]_vars

\* C36: no transaction of the pending pool has the fingerprint of a
\* transaction of a block of the chain (stated for the states in which no
\* mine_pending is under way).
C36_PendingNotInChain ==
    Quiescent =>
        \A i \in 1..Len(pendingTransactions) :
            TxHash(pendingTransactions[i]) \notin Fingerprints(AllTxs(chain))

\* C40: the fingerprint of a signed transfer occurs once in the chain at
\* most, over all the blocks.
C40_NoTransferTwice ==
    \A i, j \in 1..Len(AllTxs(chain)) :
        (/\ AllTxs(chain)[i].senderAddress # NULL
         /\ TxHash(AllTxs(chain)[i]) = TxHash(AllTxs(chain)[j])) => i = j

\* C37: a transaction hash that is reported confirmed is reported confirmed
\* in every later state, never pending or unknown again.
C37_ConfirmedStaysConfirmed ==
    [][\A tx \in TxInputs :
          getTransactionStatus(TxHash(tx)).status = "confirmed"
              => getTransactionStatus(TxHash(tx))'.status = "confirmed"]_vars

\* C38: the chain never gets shorter, and a step that replaces the chain
\* (replaceChain called by syncChain, or handleChain) installs a chain that
\* is longer than the one it replaces.
C38_ChainNeverShrinks ==
    [][/\ Len(chain') >= Len(chain)
       /\ (last'.op \in {"replaceChain", "handleChain"} /\ last'.result \in {"true", "replaced"})
             => Len(chain') > Len(chain)]_vars

====
